---- MODULE Spec2Model ----
(***************************************************************************)
(* Bone identity resolution and detection summarisation of BoneOrthoSystem. *)
(*                                                                         *)
(* Text is modelled as a sequence of characters, each character a one-     *)
(* token string, so that trimming, regular-expression rewriting and        *)
(* comparison are computed the way the Python code computes them.          *)
(* Non-ASCII characters of the source are written as ASCII tokens:         *)
(*   "FWL" / "FWR"  the full-width parentheses U+FF08 / U+FF09             *)
(*   "zh1".."zh4"   CJK ideographs of the catalog's Chinese names          *)
(***************************************************************************)
EXTENDS Integers, Sequences, FiniteSets, TLC

VARIABLES
    nName,      \* mesh name handed to a normaliser function
    nFn,        \* which normaliser function has been applied ("none" before)
    nNorm,      \* the normalised string it returned
    nCands,     \* the candidate list it returned
    sCase,      \* case_id handed to _build_seed_text
    sDets,      \* the detection list handed to _build_seed_text
    sQuestion,  \* the user question handed to _build_seed_text
    sSeed,      \* the seed text it returned (NoSeed before the call)
    catalog,    \* the rows of [model].[BoneMeshMap]: (SmallBoneId, MeshName)
    ci,         \* whether the database collation compares case-insensitively
    mResp,      \* the response of the latest get_mesh_map call
    bRows,      \* the rows the SELECT of get_bone_list returns, in its ORDER BY order
    bFails,     \* whether the database call of the operation raises
    bResp,      \* the outcome of the latest s3_viewer operation on the catalog
    hBoxes,     \* the detections YOLO returned for the uploaded image
    hBody,      \* the body of the bootstrap-from-s1 request
    hStored,    \* the rows predict stored in vision.ImageDetection
    hOut,       \* the BootstrapOut that bootstrap_from_s1 returned
    hLabel,     \* the label the legacy yolo_tool rendered for the first detection
    tExists,    \* whether the agent.Conversation row of the conversation exists
    tTitle,     \* the Title column of that row (None is NULL)
    tPc,        \* per request of the legacy set_conversation_title_if_empty: the title it is about to write
    aRows,      \* vision.ImageAnnotation rows, in insertion order
    aPc,        \* per request: the save_annotations call in progress
    aRet,       \* per request: the last response of save_annotations
    uFiles,     \* names of the files in MATERIAL_ROOT
    uRows,      \* agent.TeachingMaterial rows
    uPoints,    \* material_id payloads of the vector-store points
    uSeq,       \* how many uploads have drawn a uuid4 name
    uOut,       \* the last response of upload_material or delete_one
    pBoxes,     \* the detections of one image, in YOLO order
    pSub,       \* index_to_sub, the result of assign_spine_levels
    pDets,      \* the result of postprocess_spine_levels
    pDone,      \* which of the two functions have been applied
    gSessions,  \* SESSIONS: conversation id -> the messages of the in-memory session
    gConvs,     \* ConversationId of the agent.Conversation rows
    gMsgs,      \* agent.ConversationMessage rows, in insertion order
    gOut,       \* the last response of agent_chat
    kNow,       \* the clock, in ticks
    kUser,      \* dbo.users.states of the one registered user
    kVerifs,    \* dbo.user_email_verifications rows
    kPc,        \* per request: the verification row verify_email_code has selected, 0 for none
    kTrue,      \* per verification row: how often verify_email_code returned True for it
    kTokens,    \* dbo.user_refresh_tokens rows
    kLoggedOut, \* the refresh tokens a logout has answered ok for
    kOut        \* the last response of login, logout or refresh

nvars == <<nName, nFn, nNorm, nCands>>
svars == <<sCase, sDets, sQuestion, sSeed>>
mvars == <<catalog, ci, mResp>>
bvars == <<bRows, bFails, bResp>>
hvars == <<hBoxes, hBody, hStored, hOut, hLabel>>
tvars == <<tExists, tTitle, tPc>>
avars == <<aRows, aPc, aRet>>
uvars == <<uFiles, uRows, uPoints, uSeq, uOut>>
pvars == <<pBoxes, pSub, pDets, pDone>>
gvars == <<gSessions, gConvs, gMsgs, gOut>>
kvars == <<kNow, kUser, kVerifs, kPc, kTrue, kTokens, kLoggedOut, kOut>>
vars == <<nName, nFn, nNorm, nCands, sCase, sDets, sQuestion, sSeed, catalog, ci, mResp,
          bRows, bFails, bResp, hBoxes, hBody, hStored, hOut, hLabel,
          tExists, tTitle, tPc,
          aRows, aPc, aRet,
          uFiles, uRows, uPoints, uSeq, uOut,
          pBoxes, pSub, pDets, pDone,
          gSessions, gConvs, gMsgs, gOut,
          kNow, kUser, kVerifs, kPc, kTrue, kTokens, kLoggedOut, kOut>>

\* the values the variables of a subsystem keep while another one is checked
BIdle == bRows = <<>> /\ bFails = FALSE /\ bResp = [kind |-> "off"]

HIdle ==
    /\ hBoxes = <<>> /\ hBody = [kind |-> "off"] /\ hStored = [kind |-> "off"]
    /\ hOut = [kind |-> "off"] /\ hLabel = [kind |-> "off"]

TIdle ==
    tExists = FALSE /\ tTitle = <<>> /\ tPc = <<>>

AIdle ==
    aRows = <<>> /\ aPc = <<>> /\ aRet = <<>>

UIdle ==
    /\ uFiles = {} /\ uRows = {} /\ uPoints = {} /\ uSeq = 0
    /\ uOut = [op |-> "none", status |-> 0, file |-> 0, material_id |-> 0, reachable |-> FALSE]

PIdle ==
    pBoxes = <<>> /\ pSub = <<>> /\ pDets = <<>> /\ pDone = {"off"}

GIdle ==
    gSessions = <<>> /\ gConvs = {} /\ gMsgs = <<>> /\ gOut = [status |-> 0]

KIdle ==
    /\ kNow = 0 /\ kUser = "off" /\ kVerifs = {} /\ kPc = <<>> /\ kTrue = <<>>
    /\ kTokens = {} /\ kLoggedOut = {} /\ kOut = [op |-> "none", status |-> 0, token |-> 0]

(***************************************************************************)
(* Bounds of the model.                                                    *)
(***************************************************************************)
MaxLen == 4
MaxDets == 3
MaxRows == 3

(***************************************************************************)
(* Characters and Python string primitives.                                *)
(***************************************************************************)
Whitespace == {" ", "\n", "\r"}

SideLetters == {"L", "R", "l", "r"}

\* str.lower() on the letters that occur in the modelled names
Lower(c) ==
    CASE c = "L" -> "l"
      [] c = "R" -> "r"
      [] c = "T" -> "t"
      [] c = "F" -> "f"
      [] c = "D" -> "d"
      [] c = "S" -> "s"
      [] c = "E" -> "e"
      [] c = "I" -> "i"
      [] c = "G" -> "g"
      [] c = "H" -> "h"
      [] c = "C" -> "c"
      [] c = "V" -> "v"
      [] c = "U" -> "u"
      [] c = "X" -> "x"
      [] OTHER -> c

LowerStr(s) == [i \in 1..Len(s) |-> Lower(s[i])]

DropLast(s, k) == SubSeq(s, 1, Len(s) - k)

RECURSIVE LStrip(_)
LStrip(s) ==
    IF s # <<>> /\ Head(s) \in Whitespace THEN LStrip(Tail(s)) ELSE s

RECURSIVE RStrip(_)
RStrip(s) ==
    IF s # <<>> /\ s[Len(s)] \in Whitespace THEN RStrip(DropLast(s, 1)) ELSE s

\* str.strip()
Strip(s) == LStrip(RStrip(s))

\* str.replace(from, to) for a single character `from` and a string `to`
RECURSIVE Replace(_, _, _)
Replace(s, from, to) ==
    IF s = <<>> THEN <<>>
    ELSE (IF Head(s) = from THEN to ELSE <<Head(s)>>) \o Replace(Tail(s), from, to)

\* re.search(r"[LR]$", s, re.IGNORECASE)
EndsInSide(s) == s # <<>> /\ s[Len(s)] \in SideLetters

\* re.search(r"\.[LR]$", s, re.IGNORECASE)
EndsInDotSide(s) == Len(s) >= 2 /\ s[Len(s) - 1] = "." /\ s[Len(s)] \in SideLetters

\* order-preserving de-duplication that skips empty strings
RECURSIVE DedupFrom(_, _)
DedupFrom(cands, seen) ==
    IF cands = <<>> THEN <<>>
    ELSE LET x == Head(cands)
         IN IF x = <<>> \/ x \in seen
            THEN DedupFrom(Tail(cands), seen)
            ELSE <<x>> \o DedupFrom(Tail(cands), seen \cup {x})

(***************************************************************************)
(* s3_viewer/router.py: _normalize_mesh_name and _mesh_candidates          *)
(***************************************************************************)
\* while s.endswith("."): s = s[:-1].strip()
RECURSIVE StripTrailingDots(_)
StripTrailingDots(s) ==
    IF s # <<>> /\ s[Len(s)] = "." THEN StripTrailingDots(Strip(DropLast(s, 1))) ELSE s

\* re.sub(r"\.([LR])\1$", r".\1", s, flags=re.IGNORECASE)
CollapseDotDoubled(s) ==
    LET n == Len(s)
    IN IF /\ n >= 3
          /\ s[n - 2] = "."
          /\ s[n - 1] \in SideLetters
          /\ Lower(s[n]) = Lower(s[n - 1])
       THEN DropLast(s, 1)
       ELSE s

\* re.sub(r"\.([LR])\.\1$", r".\1", s, flags=re.IGNORECASE)
CollapseDotSideDotSide(s) ==
    LET n == Len(s)
    IN IF /\ n >= 4
          /\ s[n - 3] = "."
          /\ s[n - 2] \in SideLetters
          /\ s[n - 1] = "."
          /\ Lower(s[n]) = Lower(s[n - 2])
       THEN DropLast(s, 2)
       ELSE s

\* if len(s) > 1 and s ends in L/R but not in .L/.R: s = s[:-1] + "." + s[-1]
InsertSideDot(s) ==
    IF Len(s) > 1 /\ EndsInSide(s) /\ ~EndsInDotSide(s)
    THEN DropLast(s, 1) \o <<".">> \o <<s[Len(s)]>>
    ELSE s

RouterNormalizeMeshName(name) ==
    LET s1 == Strip(Replace(Strip(name), "_", <<" ">>))
        s2 == StripTrailingDots(s1)
        s3 == CollapseDotDoubled(s2)
        s4 == CollapseDotSideDotSide(s3)
    IN InsertSideDot(s4)

\* re.sub(r"\.L$", ".LL", n, re.IGNORECASE) / re.sub(r"\.R$", ".RR", n, re.IGNORECASE)
DoubledSideCands(n) ==
    (IF EndsInDotSide(n) /\ Lower(n[Len(n)]) = "l"
     THEN <<DropLast(n, 1) \o <<"L", "L">>>> ELSE <<>>)
    \o
    (IF EndsInDotSide(n) /\ Lower(n[Len(n)]) = "r"
     THEN <<DropLast(n, 1) \o <<"R", "R">>>> ELSE <<>>)

\* the list before de-duplication
RouterRawCands(mesh_name) ==
    LET raw == Strip(mesh_name)
        n == RouterNormalizeMeshName(raw)
    IN <<raw, n, Replace(n, ".", <<>>)>> \o DoubledSideCands(n) \o <<n \o <<".">>>>

\* the candidate list with the "seen" test of the de-duplication loop left out
RouterMeshCandidates_NoDedup(mesh_name) ==
    LET cands == RouterRawCands(mesh_name)
    IN SelectSeq([i \in 1..Len(cands) |-> Strip(cands[i])], LAMBDA x : x # <<>>)

RouterMeshCandidates(mesh_name) ==
    LET cands == RouterRawCands(mesh_name)
    IN DedupFrom([i \in 1..Len(cands) |-> Strip(cands[i])], {})

(***************************************************************************)
(* s3_viewer/mesh_map.py: _normalize_mesh_name and _variants               *)
(***************************************************************************)
\* re.sub(r"\.{2,}", ".", s)
RECURSIVE CollapseDots(_)
CollapseDots(s) ==
    IF Len(s) < 2 THEN s
    ELSE IF s[1] = "." /\ s[2] = "." THEN CollapseDots(Tail(s))
    ELSE <<Head(s)>> \o CollapseDots(Tail(s))

\* re.sub(r"([LR])\1$", r"\1", s, flags=re.IGNORECASE)
CollapseDoubled(s) ==
    LET n == Len(s)
    IN IF n >= 2 /\ s[n - 1] \in SideLetters /\ Lower(s[n]) = Lower(s[n - 1])
       THEN DropLast(s, 1)
       ELSE s

MeshMapNormalizeMeshName(name) ==
    LET s == Strip(name)
    IN IF s = <<>> THEN <<>> ELSE CollapseDoubled(CollapseDots(s))

MeshMapVariants(name) ==
    LET n == MeshMapNormalizeMeshName(name)
        c12 == <<n, Replace(n, ".", <<>>)>>
        c3 == IF EndsInSide(n) /\ ~EndsInDotSide(n)
              THEN <<DropLast(n, 1) \o <<".">> \o <<n[Len(n)]>>>>
              ELSE <<>>
        c123 == c12 \o c3
        c4 == <<Replace(c123[Len(c123)], ".", <<>>)>>
    IN IF n = <<>> THEN <<>> ELSE DedupFrom(c123 \o c4, {})

(***************************************************************************)
(* Inputs of the normaliser functions.                                     *)
(***************************************************************************)
Alphabet == {"a", "L", "R", "l", ".", "_", " "}

StringsUpTo(n) == UNION {[1..k -> Alphabet] : k \in 0..n}

Temporal == <<"T", "e", "m", "p", "o", "r", "a", "l">>
Fourth_Distal == <<"F", "o", "u", "r", "t", "h", "_", "D", "i", "s", "t", "a", "l">>
Fourth_Distal_sp == <<"F", "o", "u", "r", "t", "h", " ", "D", "i", "s", "t", "a", "l">>
Sternum == <<"S", "t", "e", "r", "n", "u", "m">>

NamedMeshNames ==
    { Temporal \o <<"L">>,
      Temporal \o <<".", "L">>,
      Temporal \o <<"L", "L">>,
      Temporal \o <<".", "L", "L">>,
      Temporal \o <<".", ".", "L">>,
      Temporal \o <<".", "L", ".", "L", ".", "L">>,
      Temporal \o <<".", "R">>,
      Temporal \o <<"R", "R">>,
      Fourth_Distal \o <<"L">>,
      Sternum }

MeshNameInputs == StringsUpTo(MaxLen) \cup NamedMeshNames

(***************************************************************************)
(* Specification of the normaliser functions: Init draws the input, each   *)
(* action applies one function of the source to it.                        *)
(***************************************************************************)
NInit ==
    /\ nName \in MeshNameInputs
    /\ nFn = "none"
    /\ nNorm = <<>>
    /\ nCands = <<>>
    /\ sCase = 0 /\ sDets = <<>> /\ sQuestion = <<>> /\ sSeed = [kind |-> "off"]
    /\ catalog = {} /\ ci = FALSE /\ mResp = [status |-> "off"]
    /\ BIdle
    /\ HIdle
    /\ TIdle
    /\ AIdle
    /\ UIdle
    /\ PIdle
    /\ GIdle
    /\ KIdle

RouterNormalize ==
    /\ nFn = "none"
    /\ nFn' = "router._normalize_mesh_name"
    /\ nNorm' = RouterNormalizeMeshName(nName)
    /\ UNCHANGED <<nName, nCands>>
    /\ UNCHANGED <<svars, mvars, bvars, hvars, tvars, avars, uvars, pvars, gvars, kvars>>

RouterCandidates ==
    /\ nFn = "none"
    /\ nFn' = "router._mesh_candidates"
    /\ nNorm' = RouterNormalizeMeshName(Strip(nName))
    /\ nCands' = RouterMeshCandidates(nName)
    /\ UNCHANGED nName
    /\ UNCHANGED <<svars, mvars, bvars, hvars, tvars, avars, uvars, pvars, gvars, kvars>>

MeshMapNormalize ==
    /\ nFn = "none"
    /\ nFn' = "mesh_map._normalize_mesh_name"
    /\ nNorm' = MeshMapNormalizeMeshName(nName)
    /\ UNCHANGED <<nName, nCands>>
    /\ UNCHANGED <<svars, mvars, bvars, hvars, tvars, avars, uvars, pvars, gvars, kvars>>

MeshMapCandidates ==
    /\ nFn = "none"
    /\ nFn' = "mesh_map._variants"
    /\ nNorm' = MeshMapNormalizeMeshName(nName)
    /\ nCands' = MeshMapVariants(nName)
    /\ UNCHANGED nName
    /\ UNCHANGED <<svars, mvars, bvars, hvars, tvars, avars, uvars, pvars, gvars, kvars>>

NNext == RouterNormalize \/ RouterCandidates \/ MeshMapNormalize \/ MeshMapCandidates

SpecNorm == NInit /\ [][NNext]_vars

(***************************************************************************)
(* Claims about the normaliser functions (checked under SpecNorm).         *)
(***************************************************************************)
NormalizeFns == {"router._normalize_mesh_name", "mesh_map._normalize_mesh_name"}

\* C3: mesh-name normalisation is idempotent: normalising the normalised
\* form returns it unchanged, for the normaliser of router.py and for the
\* normaliser of mesh_map.py.
C3_NormalizeIdempotent ==
    /\ nFn = "router._normalize_mesh_name" => RouterNormalizeMeshName(nNorm) = nNorm
    /\ nFn = "mesh_map._normalize_mesh_name" => MeshMapNormalizeMeshName(nNorm) = nNorm

BaseNames == {<<"a">>, Temporal}

\* the spellings B.X, BX, BXX, B.XX and B..X of base B and side X
SideSpellings(B, X) ==
    { B \o <<".", X>>, B \o <<X>>, B \o <<X, X>>, B \o <<".", X, X>>, B \o <<".", ".", X>> }

\* C5: each of the spellings B.X, BX, BXX, B.XX and B..X is normalised to
\* the canonical form B.X (so a canonical name is returned unchanged and a
\* doubled side letter is collapsed in the plain and the dotted form).
C5_SpellingsToCanonical ==
    \A B \in BaseNames, X \in {"L", "R"} :
        (nFn \in NormalizeFns /\ nName \in SideSpellings(B, X))
            => nNorm = B \o <<".", X>>

\* the five forms of the candidate list, in the order of the claim
C6_Forms(raw, n) ==
    <<raw, n, SelectSeq(n, LAMBDA c : c # ".")>>
    \o (IF EndsInDotSide(n) /\ n[Len(n)] \in {"L", "l"}
        THEN <<SubSeq(n, 1, Len(n) - 1) \o <<"L", "L">>>>
        ELSE IF EndsInDotSide(n) /\ n[Len(n)] \in {"R", "r"}
        THEN <<SubSeq(n, 1, Len(n) - 1) \o <<"R", "R">>>>
        ELSE <<>>)
    \o <<n \o <<".">>>>

\* the position of the first occurrence of x in list l (x occurs in l)
FirstIndex(l, x) == CHOOSE i \in 1..Len(l) : l[i] = x /\ \A j \in 1..(i - 1) : l[j] # x

\* `out` is `forms` without its empty strings, first occurrences only, in order
IsOrderedDedupOf(out, forms) ==
    /\ \A i \in 1..Len(out) : out[i] # <<>>
    /\ \A i, j \in 1..Len(out) : i # j => out[i] # out[j]
    /\ {out[i] : i \in 1..Len(out)} = {forms[i] : i \in 1..Len(forms)} \ {<<>>}
    /\ \A i, j \in 1..Len(out) : i < j => FirstIndex(forms, out[i]) < FirstIndex(forms, out[j])

\* C6 as stated: the candidate list of _mesh_candidates is the duplicate-free,
\* empty-free list of the raw input as given, the normalised form, the
\* normalised form without dots, the form with the doubled side letter and the
\* normalised form with a trailing dot, in that order.
C6_CandidateOrderAsStated ==
    nFn = "router._mesh_candidates"
        => IsOrderedDedupOf(nCands, C6_Forms(nName, nNorm))

\* C6 (amended): the same, with the raw input and every other form trimmed of
\* surrounding whitespace before empties and duplicates are dropped; and for
\* "Fourth_DistalL" the list starts "Fourth_DistalL", "Fourth Distal.L",
\* "Fourth DistalL".
C6_CandidateOrderTrimmed ==
    nFn = "router._mesh_candidates" =>
        LET forms == C6_Forms(nName, nNorm)
        IN /\ IsOrderedDedupOf(nCands, [i \in 1..Len(forms) |-> Strip(forms[i])])
           /\ nName = Fourth_Distal \o <<"L">> =>
                SubSeq(nCands, 1, 3) = << Fourth_Distal \o <<"L">>,
                                          Fourth_Distal_sp \o <<".", "L">>,
                                          Fourth_Distal_sp \o <<"L">> >>

\* a call of _mesh_candidates in which two of the five forms coincide
C6_Witness ==
    /\ nFn = "router._mesh_candidates"
    /\ nName = Temporal \o <<".", "L">>
    /\ Len(nCands) = 4

(***************************************************************************)
(* s2_agent/s1_handoff.py: display names and the seed text                 *)
(***************************************************************************)
\* Python's None where a string is expected (no character is this token)
None == <<"<None>">>

Digits == {"2", "4", "3"}

\* _normalize_text: v.encode("utf-8", "surrogateescape").decode("utf-8", "replace");
\* an escaped byte ("sur_lo", U+DC80..U+DCFF) comes back as U+FFFD; any other
\* lone surrogate ("sur_hi") makes encode raise and is dropped by the fallback.
NormalizeText(v) ==
    IF v = None THEN None
    ELSE IF \E i \in 1..Len(v) : v[i] = "sur_hi"
         THEN SelectSeq(v, LAMBDA c : c \notin {"sur_hi", "sur_lo"})
         ELSE [i \in 1..Len(v) |-> IF v[i] = "sur_lo" THEN "U+FFFD" ELSE v[i]]

\* the start of the digit run that ends at position i (i + 1 if there is none)
RECURSIVE DigitRunStart(_, _)
DigitRunStart(s, i) ==
    IF i >= 1 /\ s[i] \in Digits THEN DigitRunStart(s, i - 1) ELSE i + 1

\* _tail_num_re.sub("", name) with _tail_num_re = r"\s*\(\d+\)\s*$"
StripTailNum(name) ==
    LET t == RStrip(name)
        n == Len(t)
        d == IF n >= 1 /\ t[n] = ")" THEN DigitRunStart(t, n - 1) ELSE n + 1
    IN IF n >= 3 /\ t[n] = ")" /\ d <= n - 1 /\ d >= 2 /\ t[d - 1] = "("
       THEN RStrip(SubSeq(t, 1, d - 2))
       ELSE name

\* "x or None" for a string x
OrNone(x) == IF x = <<>> THEN None ELSE x

CleanZhName(name) ==
    IF name = None \/ name = <<>> THEN None
    ELSE LET nt == NormalizeText(name)
         IN OrNone(Strip(StripTailNum(nt)))

DisplayName(bone_zh, bone_en) ==
    LET zh == CleanZhName(bone_zh)
        e0 == NormalizeText(bone_en)
        en == OrNone(Strip(IF e0 = None THEN <<>> ELSE e0))
    IN IF zh # None /\ en # None THEN zh \o <<"FWL">> \o en \o <<"FWR">>
       ELSE IF zh # None THEN zh ELSE en

\* counter[name] += 1 on a Counter kept as its items in insertion order
CounterAdd(counter, name) ==
    IF \E i \in 1..Len(counter) : counter[i].name = name
    THEN [i \in 1..Len(counter) |->
            IF counter[i].name = name
            THEN [name |-> name, cnt |-> counter[i].cnt + 1]
            ELSE counter[i]]
    ELSE Append(counter, [name |-> name, cnt |-> 1])

\* the counting loop with "counter[name] = 1" in place of "counter[name] += 1"
RECURSIVE CountDets_NoIncrement(_, _, _)
CountDets_NoIncrement(dets, counter, unknown_cnt) ==
    IF dets = <<>> THEN [counter |-> counter, unknown_cnt |-> unknown_cnt]
    ELSE LET name == DisplayName(Head(dets).bone_zh, Head(dets).bone_en)
         IN IF name # None /\ name # <<>>
            THEN CountDets_NoIncrement(Tail(dets),
                    IF \E i \in 1..Len(counter) : counter[i].name = name
                    THEN counter ELSE Append(counter, [name |-> name, cnt |-> 1]),
                    unknown_cnt)
            ELSE CountDets_NoIncrement(Tail(dets), counter, unknown_cnt + 1)

\* the loop "for d in dets" of _build_seed_text
RECURSIVE CountDets(_, _, _)
CountDets(dets, counter, unknown_cnt) ==
    IF dets = <<>> THEN [counter |-> counter, unknown_cnt |-> unknown_cnt]
    ELSE LET name == DisplayName(Head(dets).bone_zh, Head(dets).bone_en)
         IN IF name # None /\ name # <<>>
            THEN CountDets(Tail(dets), CounterAdd(counter, name), unknown_cnt)
            ELSE CountDets(Tail(dets), counter, unknown_cnt + 1)

\* insertion of an item behind every item whose count is not smaller
RECURSIVE InsertByCount(_, _)
InsertByCount(sorted, item) ==
    IF sorted = <<>> THEN <<item>>
    ELSE IF Head(sorted).cnt >= item.cnt
         THEN <<Head(sorted)>> \o InsertByCount(Tail(sorted), item)
         ELSE <<item>> \o sorted

RECURSIVE SortByCount(_, _)
SortByCount(items, sorted) ==
    IF items = <<>> THEN sorted
    ELSE SortByCount(Tail(items), InsertByCount(sorted, Head(items)))

\* most_common() that returns the items in insertion order, unsorted
MostCommon_Unsorted(counter) == counter

\* Counter.most_common(): sorted(items, key=count, reverse=True), a stable sort
MostCommon(counter) == SortByCount(counter, <<>>)

\* a line of the detected-parts list; times = 0 renders no " xN" suffix
Line(kind, name, times) == [kind |-> kind, name |-> name, times |-> times]

\* the suffix written behind every bullet, also behind a count of 1
Suffix_Always(cnt) == cnt

\* (f" x{cnt}" if cnt > 1 else "")
Suffix(cnt) == IF cnt > 1 THEN cnt ELSE 0

\* the bullets without the else branch that writes the no-results bullet
BulletLines_NoPlaceholder(counter) ==
    LET mc == MostCommon(counter)
    IN [i \in 1..Len(mc) |-> Line("bullet", mc[i].name, Suffix(mc[i].cnt))]

\* if counter: one bullet per item of most_common(); else: the no-results bullet
BulletLines(counter) ==
    LET mc == MostCommon(counter)
    IN IF counter # <<>>
       THEN [i \in 1..Len(mc) |-> Line("bullet", mc[i].name, Suffix(mc[i].cnt))]
       ELSE <<Line("no_results", <<>>, 0)>>

BuildSeedText(case_id, dets, user_question) ==
    LET c == CountDets(dets, <<>>, 0)
        bullets == BulletLines(c.counter)
        unknown == IF c.unknown_cnt > 0
                   THEN <<Line("unresolved", <<>>, c.unknown_cnt)>>
                   ELSE <<>>
    IN [ kind |-> "seed",
         ImageCaseId |-> case_id,
         lines |-> <<Line("header", <<>>, 0)>> \o bullets \o unknown,
         question |-> Strip(user_question),
         constraints |-> <<"only_detected_parts_and_this_image">> ]

(***************************************************************************)
(* Inputs of the seed text.                                                *)
(***************************************************************************)
Ribs == <<"R", "i", "b", "s">>
CervicalVertebrae == <<"C", "e", "r", "v", "i", "c", "a", "l", " ",
                       "v", "e", "r", "t", "e", "b", "r", "a", "e">>
zhRibs == <<"zh1", "zh2">>
zhCervical == <<"zh3", "zh4">>

Det(zh, en) == [bone_zh |-> zh, bone_en |-> en]

DetPool ==
    { Det(zhRibs \o <<" ", "(", "2", "4", ")">>, Ribs),
      Det(zhRibs, <<" ">> \o Ribs),
      Det(zhCervical, CervicalVertebrae),
      Det(None, Ribs),
      Det(None, None),
      Det(<<"(", "3", ")">>, <<" ">>),
      Det(zhCervical \o <<"sur_lo">>, None) }

DetLists == UNION {[1..k -> DetPool] : k \in 0..MaxDets}

DefaultQuestion == <<"default_question_template">>

Questions == { <<"w", "h", "y">>, <<" ", "w", "h", "y", " ">>, DefaultQuestion }

CaseIds == {42}

NoSeed == [kind |-> "none"]

SIdle == sCase = 0 /\ sDets = <<>> /\ sQuestion = <<>> /\ sSeed = [kind |-> "off"]

MIdle == catalog = {} /\ ci = FALSE /\ mResp = [status |-> "off"]

NIdle == nName = <<>> /\ nFn = "off" /\ nNorm = <<>> /\ nCands = <<>>

SInit ==
    /\ sCase \in CaseIds
    /\ sDets \in DetLists
    /\ sQuestion \in Questions
    /\ sSeed = NoSeed
    /\ NIdle
    /\ MIdle
    /\ BIdle
    /\ HIdle
    /\ TIdle
    /\ AIdle
    /\ UIdle
    /\ PIdle
    /\ GIdle
    /\ KIdle

BuildSeed ==
    /\ sSeed = NoSeed
    /\ sSeed' = BuildSeedText(sCase, sDets, sQuestion)
    /\ UNCHANGED <<sCase, sDets, sQuestion>>
    /\ UNCHANGED <<nvars, mvars, bvars, hvars, tvars, avars, uvars, pvars, gvars, kvars>>

SNext == BuildSeed

SpecSeed == SInit /\ [][SNext]_vars

(***************************************************************************)
(* Claims about the seed text (checked under SpecSeed).                    *)
(***************************************************************************)
RECURSIVE SumSeq(_)
SumSeq(s) == IF s = <<>> THEN 0 ELSE Head(s) + SumSeq(Tail(s))

Bullets(seed) == SelectSeq(seed.lines, LAMBDA l : l.kind = "bullet")

\* the count a bullet shows: the number behind its suffix, 1 without a suffix
RenderedCount(line) == IF line.times = 0 THEN 1 ELSE line.times

\* the number the unresolved bullet shows, 0 when there is no such bullet
RenderedUnresolved(seed) ==
    SumSeq([i \in 1..Len(seed.lines) |->
              IF seed.lines[i].kind = "unresolved" THEN seed.lines[i].times ELSE 0])

\* C1: the counts rendered for the display names plus the unresolved count
\* add up to the number of detections handed in.
C1_CountsAddUp ==
    sSeed.kind = "seed" =>
        LET b == Bullets(sSeed)
        IN SumSeq([i \in 1..Len(b) |-> RenderedCount(b[i])]) + RenderedUnresolved(sSeed)
             = Len(sDets)

\* a seed text of three detections, two under one display name and one unresolved
C1_Witness ==
    /\ sSeed.kind = "seed"
    /\ Len(sDets) = 3
    /\ \E i \in 1..Len(sSeed.lines) :
          sSeed.lines[i].kind = "bullet" /\ sSeed.lines[i].times = 2
    /\ RenderedUnresolved(sSeed) = 1

\* the position in the input at which a display name is first seen
FirstSeen(dets, name) ==
    CHOOSE k \in 1..Len(dets) :
        /\ DisplayName(dets[k].bone_zh, dets[k].bone_en) = name
        /\ \A j \in 1..(k - 1) : DisplayName(dets[j].bone_zh, dets[j].bone_en) # name

\* C2: the bullets are in non-increasing count order, and bullets of equal
\* count are in the order in which their names are first seen in the input.
C2_BulletOrder ==
    sSeed.kind = "seed" =>
        LET b == Bullets(sSeed)
        IN \A i, j \in 1..Len(b) : i < j =>
              /\ RenderedCount(b[i]) >= RenderedCount(b[j])
              /\ RenderedCount(b[i]) = RenderedCount(b[j])
                    => FirstSeen(sDets, b[i].name) < FirstSeen(sDets, b[j].name)

\* a seed text whose bullets are reordered by count and one with a tie
C2_Witness ==
    /\ sSeed.kind = "seed"
    /\ Len(Bullets(sSeed)) = 2
    /\ Bullets(sSeed)[1].times = 2
    /\ FirstSeen(sDets, Bullets(sSeed)[1].name) > FirstSeen(sDets, Bullets(sSeed)[2].name)

(***************************************************************************)
(* The mesh-map table and the two get_mesh_map implementations.            *)
(*                                                                         *)
(* The table is only read by the program.  Two things the code leaves to   *)
(* the database are nondeterministic here: whether "MeshName IN (...)"     *)
(* compares case-insensitively (the collation, ci), and the order in which *)
(* rows come back from a SELECT without ORDER BY.                          *)
(***************************************************************************)
Row(id, name) == [small_bone_id |-> id, mesh_name |-> name]

NoRow == Row(0, <<>>)

Detail(message, input, normalized, candidates) ==
    [message |-> message, input |-> input, normalized |-> normalized,
     candidates |-> candidates]

NoDetail == Detail("<absent>", <<>>, <<>>, <<>>)

\* a response: the keys a caller can read; an absent key holds NoRow / NoDetail / <<>>
Resp(impl, input, status, http, detail, row, best_match, matches) ==
    [impl |-> impl, input |-> input, status |-> status, http |-> http,
     detail |-> detail, row |-> row, best_match |-> best_match, matches |-> matches]

NoResp == [status |-> "none"]

\* "MeshName = ?" under the collation of the database
SqlEq(a, b) == IF ci THEN LowerStr(a) = LowerStr(b) ELSE a = b

\* "MeshName LIKE ? + '%'": a prefix match in place of the IN list
SqlIn_Prefix(name, cands) ==
    \E i \in 1..Len(cands) :
        /\ Len(name) >= Len(cands[i])
        /\ SqlEq(SubSeq(name, 1, Len(cands[i])), cands[i])

\* "MeshName IN (?, ?, ...)"
SqlIn(name, cands) == \E i \in 1..Len(cands) : SqlEq(name, cands[i])

\* the rows "WHERE MeshName IN (cands)" selects
Matching(cands) == {r \in catalog : SqlIn(r.mesh_name, cands)}

\* every order in which the database may return a set of rows
Orders(rows) ==
    {o \in [1..Cardinality(rows) -> rows] : \A i, j \in 1..Cardinality(rows) : i # j => o[i] # o[j]}

\* the 404 of router.get_mesh_map with the candidate list left out of the detail
RouterNotFound_NoCands(mesh_name) ==
    Resp("router", mesh_name, "not_found", 404,
         Detail("MeshName not found", mesh_name, RouterNormalizeMeshName(mesh_name), <<>>),
         NoRow, NoRow, <<>>)

\* raise HTTPException(status_code=404, detail={...})
RouterNotFound(mesh_name) ==
    Resp("router", mesh_name, "not_found", 404,
         Detail("MeshName not found", mesh_name, RouterNormalizeMeshName(mesh_name),
                RouterMeshCandidates(mesh_name)),
         NoRow, NoRow, <<>>)

\* return dict(zip(cols, row))
RouterFound(mesh_name, row) ==
    Resp("router", mesh_name, "found", 200, NoDetail, row, NoRow, <<>>)

\* router.get_mesh_map: SELECT TOP 1 ... WHERE MeshName IN (cands), no ORDER BY:
\* the database returns any one of the matching rows
RouterGetMeshMap(mesh_name) ==
    LET rows == Matching(RouterMeshCandidates(mesh_name))
    IN IF rows = {} THEN {RouterNotFound(mesh_name)}
       ELSE {RouterFound(mesh_name, r) : r \in rows}

\* the first target of `targets` that some fetched row equals, else NoRow
RECURSIVE FirstEqual(_, _)
FirstEqual(targets, matches) ==
    IF targets = <<>> THEN NoRow
    ELSE LET hit == SelectSeq(matches, LAMBDA m : m.mesh_name = Head(targets))
         IN IF hit # <<>> THEN Head(hit) ELSE FirstEqual(Tail(targets), matches)

\* best = first row equal to one of [raw, norm] + cands, else matches[0]
BestMatch(raw, norm, cands, matches) ==
    LET best == FirstEqual(<<raw, norm>> \o cands, matches)
    IN IF best # NoRow THEN best ELSE matches[1]

MeshMapEmpty(raw, norm) ==
    Resp("mesh_map", raw, "not_found", 200,
         Detail("Empty mesh_name", raw, norm, <<>>), NoRow, NoRow, <<>>)

MeshMapNotFound(raw, norm, cands) ==
    Resp("mesh_map", raw, "not_found", 200,
         Detail("MeshName not found", raw, norm, cands), NoRow, NoRow, <<>>)

MeshMapFound(raw, matches, best) ==
    Resp("mesh_map", raw, "found", 200, NoDetail, NoRow, best, matches)

\* mesh_map.get_mesh_map: SELECT ... WHERE MeshName IN (cands), no ORDER BY:
\* fetchall() returns the matching rows in any order
MeshMapGetMeshMap(mesh_name) ==
    LET raw == mesh_name
        norm == MeshMapNormalizeMeshName(raw)
        cands == MeshMapVariants(raw)
        rows == Matching(cands)
    IN IF cands = <<>> THEN {MeshMapEmpty(raw, norm)}
       ELSE IF rows = {} THEN {MeshMapNotFound(raw, norm, cands)}
       ELSE {MeshMapFound(raw, m, BestMatch(raw, norm, cands, m)) : m \in Orders(rows)}

\* the row a "found" response resolves to
RespRow(r) == IF r.impl = "router" THEN r.row ELSE r.best_match

(***************************************************************************)
(* Inputs of the mesh-map lookup.                                          *)
(***************************************************************************)
CatalogRows ==
    { Row(1, Temporal \o <<".", "L">>),
      Row(2, Temporal \o <<"L">>),
      Row(3, Temporal \o <<".", "L", "L">>),
      Row(4, LowerStr(Temporal \o <<".", "L">>)),
      Row(5, <<".">>),
      Row(6, Temporal \o <<".", "R">>) }

MeshRequests ==
    { Temporal \o <<"L">>,
      Temporal \o <<".", "L">>,
      Temporal \o <<".", "L", "L">>,
      Sternum,
      <<" ">>,
      <<>> }

MInit ==
    /\ catalog \in {c \in SUBSET CatalogRows : Cardinality(c) <= MaxRows}
    /\ ci \in BOOLEAN
    /\ mResp = NoResp
    /\ NIdle
    /\ SIdle
    /\ BIdle
    /\ HIdle
    /\ TIdle
    /\ AIdle
    /\ UIdle
    /\ PIdle
    /\ GIdle
    /\ KIdle

\* GET /s3/mesh-map/{mesh_name} of s3_viewer/router.py
RouterLookup ==
    \E name \in MeshRequests :
        /\ mResp' \in RouterGetMeshMap(name)
        /\ UNCHANGED <<catalog, ci, nvars, svars, bvars, hvars, tvars, avars, uvars, pvars, gvars, kvars>>

\* get_mesh_map of s3_viewer/mesh_map.py
MeshMapLookup ==
    \E name \in MeshRequests :
        /\ mResp' \in MeshMapGetMeshMap(name)
        /\ UNCHANGED <<catalog, ci, nvars, svars, bvars, hvars, tvars, avars, uvars, pvars, gvars, kvars>>

MNext == RouterLookup \/ MeshMapLookup

SpecMesh == MInit /\ [][MNext]_vars

(***************************************************************************)
(* Claims about the mesh-map lookup (checked under SpecMesh).              *)
(***************************************************************************)
Answered == mResp.status \in {"found", "not_found"}

TemporalDotL == Temporal \o <<".", "L">>

\* C4: with the row "Temporal.L" in the catalog, get_mesh_map("TemporalL")
\* and get_mesh_map("Temporal.L") of one implementation, asked one after the
\* other, both resolve, and to the same bone id.
C4_SideVariantsAgree ==
    [][ ( /\ \E r \in catalog : r.mesh_name = TemporalDotL
          /\ mResp.status \in {"found", "not_found"}
          /\ mResp.input = Temporal \o <<"L">>
          /\ mResp'.input = TemporalDotL
          /\ mResp'.impl = mResp.impl )
        => ( /\ mResp.status = "found"
             /\ mResp'.status = "found"
             /\ RespRow(mResp).small_bone_id = RespRow(mResp').small_bone_id ) ]_vars

\* C7: for an empty or whitespace-only mesh name the normalised form is
\* empty, the candidate list handed to the lookup is empty and the lookup
\* ends in a not-found result.
C7_EmptyNameNotFound ==
    (Answered /\ Strip(mResp.input) = <<>>) =>
        /\ mResp.status = "not_found"
        /\ mResp.detail.normalized = <<>>
        /\ mResp.detail.candidates = <<>>

\* the candidates the implementation that answered tries for its input
CandidatesOf(r) ==
    IF r.impl = "router" THEN RouterMeshCandidates(r.input) ELSE MeshMapVariants(r.input)

NormalizedOf(r) ==
    IF r.impl = "router" THEN RouterNormalizeMeshName(r.input)
    ELSE MeshMapNormalizeMeshName(r.input)

\* no catalog row equals a candidate under the collation of the database
NoRowMatches(r) ==
    \A row \in catalog : \A i \in 1..Len(CandidatesOf(r)) :
        ~SqlEq(row.mesh_name, CandidatesOf(r)[i])

\* C8: when no catalog row matches a candidate of a non-empty mesh name the
\* result is not-found and carries the input, its normalised form and the
\* complete candidate list, and no best_match; no result carries both a
\* not-found detail and a best_match.
C8_NotFoundPayload ==
    Answered =>
        /\ (Strip(mResp.input) # <<>> /\ NoRowMatches(mResp)) =>
              /\ mResp.detail # NoDetail
              /\ mResp.detail.input = mResp.input
              /\ mResp.detail.normalized = NormalizedOf(mResp)
              /\ mResp.detail.candidates = CandidatesOf(mResp)
              /\ Len(mResp.detail.candidates) >= 1
              /\ mResp.best_match = NoRow
        /\ ~(mResp.detail # NoDetail /\ mResp.best_match # NoRow)

\* a not-found answer for "Temporal.L" of each kind of caller
C8_Witness ==
    /\ mResp.status = "not_found"
    /\ mResp.impl = "router"
    /\ mResp.input = TemporalDotL
    /\ Len(mResp.detail.candidates) = 4
    /\ catalog # {}

\* the candidate order of the claim: raw input, normalised form, the variants
CandidateOrder(r) == <<r.input, NormalizedOf(r)>> \o CandidatesOf(r)

CiEq(a, b) == LowerStr(a) = LowerStr(b)

\* the position of the earliest candidate that some catalog row matches
\* case-insensitively (0 if there is none)
EarliestHit(r) ==
    LET o == CandidateOrder(r)
        hits == {i \in 1..Len(o) : \E row \in catalog : CiEq(row.mesh_name, o[i])}
    IN IF hits = {} THEN 0 ELSE CHOOSE i \in hits : \A j \in hits : i <= j

\* C9: the row returned as the match is the one matching the earliest
\* candidate in candidate order, compared case-insensitively, whatever the
\* order in which the catalog returns its rows.
C9_EarliestCandidateWins ==
    (mResp.status = "found" /\ EarliestHit(mResp) > 0) =>
        CiEq(RespRow(mResp).mesh_name, CandidateOrder(mResp)[EarliestHit(mResp)])

\* the normalised form with a trailing .L / .R stripped
BaseOf(r) ==
    LET n == NormalizedOf(r)
    IN IF EndsInDotSide(n) THEN SubSeq(n, 1, Len(n) - 2) ELSE n

\* some catalog name starts with the base of the input
PrefixRowExists(r) ==
    /\ BaseOf(r) # <<>>
    /\ \E row \in catalog :
          /\ Len(row.mesh_name) >= Len(BaseOf(r))
          /\ CiEq(SubSeq(row.mesh_name, 1, Len(BaseOf(r))), BaseOf(r))

Contains(s, sub) ==
    \E i \in 1..(Len(s) - Len(sub) + 1) : SubSeq(s, i, i + Len(sub) - 1) = sub

\* m[-1].upper() for a side letter
Upper(c) == IF c = "l" THEN "L" ELSE IF c = "r" THEN "R" ELSE c

\* re.sub(r"\s+", " ", s)
RECURSIVE CollapseWs(_)
CollapseWs(s) ==
    IF s = <<>> THEN <<>>
    ELSE IF Head(s) \in Whitespace
         THEN <<" ">> \o CollapseWs(LStrip(s))
         ELSE <<Head(s)>> \o CollapseWs(Tail(s))

SideFromPlace(place, mesh_name) ==
    LET p == LowerStr(Strip(place))
        m == Strip(mesh_name)
    IN IF Contains(p, <<"l", "e", "f", "t">>) THEN <<"L">>
       ELSE IF Contains(p, <<"r", "i", "g", "h", "t">>) THEN <<"R">>
       ELSE IF EndsInDotSide(m) THEN <<Upper(m[Len(m)])>>
       ELSE IF EndsInSide(m) THEN <<Upper(m[Len(m)])>>
       ELSE None

KeyBase(small_bone_en, mesh_name) ==
    LET b0 == IF Strip(small_bone_en) # <<>> THEN Strip(small_bone_en) ELSE Strip(mesh_name)
        b1 == Strip(CollapseWs(b0))
        b2 == IF EndsInDotSide(b1) THEN DropLast(b1, 2) ELSE b1
        b3 == IF EndsInSide(b2) THEN DropLast(b2, 1) ELSE b2
    IN Strip(b3)

Item(r, side) ==
    [ small_bone_id |-> r.small_bone_id, small_bone_en |-> r.small_bone_en,
      place |-> r.place, mesh_name |-> r.mesh_name, side |-> side ]

\* the position of the group with key gk in the dict, 0 when it has none
GroupIndex(groups, bone_id, key) ==
    IF \E i \in 1..Len(groups) : groups[i].bone_id = bone_id /\ groups[i].key = key
    THEN CHOOSE i \in 1..Len(groups) : groups[i].bone_id = bone_id /\ groups[i].key = key
    ELSE 0

\* one pass of the loop "for r in cur.fetchall()" of get_bone_list
AddRow(groups, r) ==
    LET side == SideFromPlace(r.place, r.mesh_name)
        key == KeyBase(r.small_bone_en, r.mesh_name)
        item == Item(r, side)
        g0 == IF GroupIndex(groups, r.bone_id, key) = 0
              THEN Append(groups, [ key |-> key, bone_id |-> r.bone_id, count |-> 0,
                                    left |-> None, right |-> None, center |-> None,
                                    items |-> <<>> ])
              ELSE groups
        k == GroupIndex(g0, r.bone_id, key)
    IN [g0 EXCEPT ![k] =
          [@ EXCEPT !.items = Append(@, item),
                    !.count = @ + 1,
                    !.left = IF side = <<"L">> THEN item ELSE @,
                    !.right = IF side = <<"R">> THEN item ELSE @,
                    !.center = IF side \notin {<<"L">>, <<"R">>} THEN item ELSE @]]

RECURSIVE GroupRows(_, _)
GroupRows(rows, groups) ==
    IF rows = <<>> THEN groups ELSE GroupRows(Tail(rows), AddRow(groups, Head(rows)))

\* the outcome of one operation: it returned a value or an exception left it
Outcome(op, kind, detail, data) ==
    [ op |-> op, kind |-> kind, detail |-> detail, data |-> data ]

NoOutcome == [kind |-> "none"]

\* get_bone_list: cur.execute inside try/except, then the grouping loop
GetBoneListResult(rows, fails) ==
    IF fails
    THEN Outcome("get_bone_list", "returned", <<"Table not found or SQL error">>, <<>>)
    ELSE Outcome("get_bone_list", "returned", <<>>, GroupRows(rows, <<>>))

\* _try_select: True when the SELECT ran, False when it raised
TrySelectResult(fails) ==
    Outcome("_try_select", "returned", <<>>, <<(~fails)>>)

\* the query block of mesh_map.get_mesh_map: no handler around cur.execute
MeshMapQueryResult(rows, fails) ==
    IF fails
    THEN Outcome("mesh_map.get_mesh_map", "raised", <<"pyodbc.Error">>, <<>>)
    ELSE Outcome("mesh_map.get_mesh_map", "returned", <<>>,
                 [i \in 1..Len(rows) |->
                    [small_bone_id |-> rows[i].small_bone_id, mesh_name |-> rows[i].mesh_name]])

(***************************************************************************)
(* Inputs of get_bone_list: the joined rows of Bone_Info, Bone_small and   *)
(* BoneMeshMap.                                                            *)
(***************************************************************************)
MaxBoneRows == 3

Femur == <<"F", "e", "m", "u", "r">>
Skull == <<"S", "k", "u", "l", "l">>
Left == <<"L", "e", "f", "t">>
RIGHT == <<"R", "I", "G", "H", "T">>

BoneRow(bone_id, small_bone_en, place, mesh_name) ==
    [ bone_id |-> bone_id, small_bone_en |-> small_bone_en,
      place |-> place, mesh_name |-> mesh_name ]

BoneRowPool ==
    { BoneRow(1, <<>>, <<>>, Sternum),
      BoneRow(1, <<>>, <<>>, Femur),
      BoneRow(1, <<>>, <<>>, Skull),
      BoneRow(1, <<>>, Left \o <<" ">>, Femur),
      BoneRow(1, <<>>, RIGHT, Femur \o <<".", "L">>),
      BoneRow(1, Femur \o <<".", "L">>, <<>>, Femur \o <<".", "L">>),
      BoneRow(1, Femur \o <<".", "R">>, <<>>, Femur \o <<".", "R">>),
      BoneRow(1, Femur \o <<"R">>, <<>>, Femur \o <<"R">>),
      BoneRow(2, Femur \o <<".", "R">>, <<>>, Femur \o <<".", "R">>),
      BoneRow(2, Temporal \o <<"L">>, <<>>, Temporal \o <<"L">>),
      BoneRow(2, Temporal \o <<"R">>, <<>>, <<>>) }

\* the result set: ORDER BY bone_id, small_bone_id, the small bone ids distinct
BoneRowLists ==
    { [i \in 1..Len(q) |->
          [ bone_id |-> q[i].bone_id, small_bone_id |-> i,
            small_bone_en |-> q[i].small_bone_en, place |-> q[i].place,
            mesh_name |-> q[i].mesh_name ]] :
      q \in { r \in UNION {[1..k -> BoneRowPool] : k \in 0..MaxBoneRows} :
                \A i, j \in 1..Len(r) : i < j => r[i].bone_id <= r[j].bone_id } }

(***************************************************************************)
(* Specification of the s3_viewer catalog operations: Init draws the rows  *)
(* and whether the database call raises, each action is one operation.     *)
(***************************************************************************)
BInit ==
    /\ bRows \in BoneRowLists
    /\ bFails \in BOOLEAN
    /\ bResp = NoOutcome
    /\ NIdle
    /\ SIdle
    /\ MIdle
    /\ HIdle
    /\ TIdle
    /\ AIdle
    /\ UIdle
    /\ PIdle
    /\ GIdle
    /\ KIdle

GetBoneList ==
    /\ bResp = NoOutcome
    /\ bResp' = GetBoneListResult(bRows, bFails)
    /\ UNCHANGED <<bRows, bFails, nvars, svars, mvars, hvars, tvars, avars, uvars, pvars, gvars, kvars>>

TrySelect ==
    /\ bResp = NoOutcome
    /\ bResp' = TrySelectResult(bFails)
    /\ UNCHANGED <<bRows, bFails, nvars, svars, mvars, hvars, tvars, avars, uvars, pvars, gvars, kvars>>

MeshMapQuery ==
    /\ bResp = NoOutcome
    /\ bResp' = MeshMapQueryResult(bRows, bFails)
    /\ UNCHANGED <<bRows, bFails, nvars, svars, mvars, hvars, tvars, avars, uvars, pvars, gvars, kvars>>

BNext == GetBoneList \/ TrySelect \/ MeshMapQuery

SpecBones == BInit /\ [][BNext]_vars

(***************************************************************************)
(* Claims about the bone list (checked under SpecBones).                   *)
(***************************************************************************)
Listed == bResp.kind = "returned" /\ bResp.op = "get_bone_list" /\ bResp.detail = <<>>

\* the place hint contains the word, compared case-insensitively
PlaceSays(place, word) == Contains(LowerStr(place), word)

NoPlaceSide(place) ==
    /\ ~PlaceSays(place, <<"l", "e", "f", "t">>)
    /\ ~PlaceSays(place, <<"r", "i", "g", "h", "t">>)

\* the side a trailing L / R / .L / .R token of the mesh name carries
TrailingSideToken(mesh_name) ==
    LET m == Strip(mesh_name)
    IN IF m # <<>> /\ m[Len(m)] \in {"L", "R"} THEN <<m[Len(m)]>> ELSE None

UnsidedNames == {Sternum, Femur, Skull}

\* C11: a listed row has side L (R) when its place hint contains "left"
\* ("right") in any letter case; without such a hint it has the side of the
\* trailing side token of its mesh name; and a row named Sternum, Femur or
\* Skull without a hint has side None and is filed in neither the left nor
\* the right slot of its group.
C11_SideFromPlaceAsStated ==
    Listed =>
        \A g \in 1..Len(bResp.data) : \A k \in 1..Len(bResp.data[g].items) :
            LET grp == bResp.data[g]
                it == grp.items[k]
            IN /\ PlaceSays(it.place, <<"l", "e", "f", "t">>) => it.side = <<"L">>
               /\ ( /\ ~PlaceSays(it.place, <<"l", "e", "f", "t">>)
                    /\ PlaceSays(it.place, <<"r", "i", "g", "h", "t">>) ) => it.side = <<"R">>
               /\ (NoPlaceSide(it.place) /\ TrailingSideToken(it.mesh_name) # None)
                     => it.side = TrailingSideToken(it.mesh_name)
               /\ (NoPlaceSide(it.place) /\ Strip(it.mesh_name) \in UnsidedNames)
                     => it.side = None /\ grp.left # it /\ grp.right # it

\* the name of a row that the grouping key is taken from
RowName(r) == IF Strip(r.small_bone_en) # <<>> THEN r.small_bone_en ELSE r.mesh_name

SideTokens == { <<".", "L">>, <<".", "R">>, <<"L">>, <<"R">> }

HasSuffix(s, t) == Len(s) > Len(t) /\ SubSeq(s, Len(s) - Len(t) + 1, Len(s)) = t

\* two names made of one base name and a trailing side token each
DifferOnlyBySide(a, b) ==
    /\ a # b
    /\ \E t1, t2 \in SideTokens :
          /\ HasSuffix(a, t1)
          /\ HasSuffix(b, t2)
          /\ DropLast(a, Len(t1)) = DropLast(b, Len(t2))

\* the position of the group that holds the row with this small bone id
GroupOf(data, small_bone_id) ==
    CHOOSE g \in 1..Len(data) :
        \E k \in 1..Len(data[g].items) : data[g].items[k].small_bone_id = small_bone_id

\* C12: two listed rows whose names differ only by their side token are in
\* the same group, whatever their ids are.
C12_SidesShareGroup ==
    Listed =>
        \A i, j \in 1..Len(bRows) :
            DifferOnlyBySide(RowName(bRows[i]), RowName(bRows[j]))
                => GroupOf(bResp.data, bRows[i].small_bone_id)
                     = GroupOf(bResp.data, bRows[j].small_bone_id)

(***************************************************************************)
(* s1_detection: predict, get_bone_info and save_case_and_detections.      *)
(*                                                                         *)
(* dbo.Bone_Info is only read by the program; its rows are fixed here.     *)
(* A NULL BoneId is written 0 (the ids of the table are positive), a NULL  *)
(* text column is None.  A confidence is written in tenths.                *)
(***************************************************************************)
MaxBoxes == 3

Cervical_Vertebrae == <<"C", "e", "r", "v", "i", "c", "a", "l", "_",
                        "V", "e", "r", "t", "e", "b", "r", "a", "e">>
Unknown_Label_X == <<"U", "n", "k", "n", "o", "w", "n", "_",
                     "L", "a", "b", "e", "l", "_", "X">>

\* model.names: the class names of the YOLO model, by class id
YoloNames == <<Ribs, Cervical_Vertebrae, Unknown_Label_X, Skull>>

BoneInfoRow(bone_id, bone_zh, bone_en) ==
    [bone_id |-> bone_id, bone_zh |-> bone_zh, bone_en |-> bone_en]

BoneInfoTable ==
    { BoneInfoRow(1, zhRibs \o <<" ", "(", "2", "4", ")">>, Ribs),
      BoneInfoRow(2, zhCervical, CervicalVertebrae),
      BoneInfoRow(3, None, Skull) }

NoBoneInfo == BoneInfoRow(0, None, None)

\* MODEL_TO_DB_BONE_EN.get(model_name, model_name.replace("_", " ")), with the
\* entry of the table whose key is among the modelled class names
ModelToDbBoneEn(model_name) ==
    IF model_name = Cervical_Vertebrae THEN CervicalVertebrae
    ELSE Replace(model_name, "_", <<" ">>)

\* get_bone_info: SELECT TOP 1 ... WHERE bone_en = ?; None when no row matches
GetBoneInfo(model_name) ==
    LET rows == {r \in BoneInfoTable : r.bone_en = ModelToDbBoneEn(model_name)}
    IN IF rows = {} THEN NoBoneInfo ELSE CHOOSE r \in rows : TRUE

\* the loop of predict over the detections of the image
PredictBoxes(dets) ==
    [i \in 1..Len(dets) |->
        [ cls_id |-> dets[i].cls_id,
          cls_name |-> YoloNames[dets[i].cls_id],
          conf |-> dets[i].conf,
          bone_info |-> GetBoneInfo(YoloNames[dets[i].cls_id]) ]]

\* insert_image_detections that leaves out the boxes without bone_info
InsertImageDetections_SkipUnresolved(image_case_id, boxes) ==
    LET kept == SelectSeq(boxes, LAMBDA b : b.bone_info # NoBoneInfo)
    IN [i \in 1..Len(kept) |->
          [ DetectionId |-> i, ImageCaseId |-> image_case_id,
            BoneId |-> kept[i].bone_info.bone_id,
            Label41 |-> kept[i].cls_id, Confidence |-> kept[i].conf ]]

\* insert_image_detections: one row per box, BoneId NULL without bone_info
InsertImageDetections(image_case_id, boxes) ==
    [i \in 1..Len(boxes) |->
        [ DetectionId |-> i, ImageCaseId |-> image_case_id,
          BoneId |-> boxes[i].bone_info.bone_id,
          Label41 |-> boxes[i].cls_id, Confidence |-> boxes[i].conf ]]

Stored(kind, image_case_id, image_path, rows) ==
    [kind |-> kind, ImageCaseId |-> image_case_id, image_path |-> image_path, rows |-> rows]

NothingStored == Stored("none", 0, <<>>, <<>>)

\* predict: returns before saving when YOLO found nothing, otherwise
\* save_case_and_detections stores the image, the case and every box
Predict(dets, image_case_id) ==
    IF Len(dets) = 0
    THEN Stored("no_case", 0, <<>>, <<>>)
    ELSE Stored("case", image_case_id, <<"/public/bone_images/file">>,
                InsertImageDetections(image_case_id, PredictBoxes(dets)))

(***************************************************************************)
(* s2_agent/s1_handoff.py: bootstrap_from_s1                               *)
(***************************************************************************)
DefaultTopK == 10

Min(a, b) == IF a <= b THEN a ELSE b

\* SELECT TOP (top_k) ... ORDER BY d.Confidence DESC: every order the
\* database may give to rows of equal confidence, cut after top_k rows
SelectDetections(rows, top_k) ==
    LET n == Len(rows)
        perms == {o \in [1..n -> 1..n] :
                    /\ \A i, j \in 1..n : i # j => o[i] # o[j]
                    /\ \A i, j \in 1..n : i < j =>
                          rows[o[i]].Confidence >= rows[o[j]].Confidence}
    IN {[i \in 1..Min(top_k, n) |-> rows[o[i]]] : o \in perms}

\* LEFT JOIN dbo.Bone_Info b ON d.BoneId = b.bone_id, then the det dict
DetOfRow(row) ==
    LET joined == {b \in BoneInfoTable : b.bone_id = row.BoneId}
        b == IF joined = {} THEN NoBoneInfo ELSE CHOOSE x \in joined : TRUE
    IN [ bone_id |-> row.BoneId,
         bone_zh |-> NormalizeText(b.bone_zh),
         bone_en |-> NormalizeText(b.bone_en),
         label41 |-> row.Label41,
         confidence |-> row.Confidence ]

\* question = (body.question or "").strip() without the default
BootstrapQuestion_NoDefault(question) ==
    IF question = None THEN <<>> ELSE Strip(question)

\* question = (body.question or "").strip(); if not question: the default
BootstrapQuestion(question) ==
    LET q == IF question = None THEN <<>> ELSE Strip(question)
    IN IF q = <<>> THEN DefaultQuestion ELSE q

BackendMsg(role, type, content, url, filetype) ==
    [role |-> role, type |-> type, content |-> content, url |-> url, filetype |-> filetype]

NoContent == [kind |-> "None"]

\* seed_messages with the text message put first
SeedMessages_TextFirst(image_url, filetype, seed_text) ==
    << BackendMsg("user", "text", seed_text, None, None),
       BackendMsg("user", "image", NoContent, image_url, filetype) >>

\* seed_messages = [image message, text message]
SeedMessages(image_url, filetype, seed_text) ==
    << BackendMsg("user", "image", NoContent, image_url, filetype),
       BackendMsg("user", "text", seed_text, None, None) >>

HttpError(status) ==
    [kind |-> "HTTPException", status |-> status]

NoOut == [kind |-> "none"]

\* bootstrap_from_s1 for the rows the detection query returned
BootstrapOut(body, stored, selected) ==
    LET case_id == body.image_case_id
        image_url == Strip(NormalizeText(stored.image_path))
        dets == [i \in 1..Len(selected) |-> DetOfRow(selected[i])]
        question == BootstrapQuestion(body.question)
        seed_text == BuildSeedText(case_id, dets, question)
    IN IF stored.kind # "case" \/ stored.ImageCaseId # case_id THEN HttpError(404)
       ELSE IF image_url = <<>> THEN HttpError(400)
       ELSE [ kind |-> "BootstrapOut",
              session_id |-> <<"s1", case_id>>,
              image_case_id |-> case_id,
              seed_messages |-> SeedMessages(image_url, <<"image/png">>, seed_text),
              detections |-> dets ]

(***************************************************************************)
(* s2_agent/backend/app/tools/yolo_tool.py: the label analyze_image renders *)
(***************************************************************************)
Femora == <<"F", "e", "m", "o", "r", "a">>

\* _CLASS_ALIASES.get(name, name), with the entry of the singular "Femur"
NormalizeEn(name) == IF name = Femur THEN Femora ELSE name

\* get_bone_zh_en_by_en: WHERE LOWER(bone_en) = LOWER(?), (None, None) without a row
GetBoneZhEnByEn(bone_en) ==
    LET rows == {r \in BoneInfoTable : LowerStr(r.bone_en) = LowerStr(NormalizeEn(bone_en))}
    IN IF rows = {} THEN NoBoneInfo ELSE CHOOSE r \in rows : TRUE

\* yolo_tool._clean_zh_name
YoloCleanZhName(zh) == IF zh = <<>> THEN zh ELSE Strip(StripTailNum(zh))

GetBoneLabelForDisplay(yolo_name) ==
    LET r == GetBoneZhEnByEn(yolo_name)
    IN IF r.bone_zh # None /\ r.bone_zh # <<>> /\ r.bone_en # None /\ r.bone_en # <<>>
       THEN YoloCleanZhName(r.bone_zh) \o <<"(">> \o r.bone_en \o <<")">>
       ELSE yolo_name

\* the "bone" entries of the detections analyze_image returns
AnalyzeImageLabels(dets) ==
    [kind |-> "labels",
     bones |-> [i \in 1..Len(dets) |-> GetBoneLabelForDisplay(YoloNames[dets[i].cls_id])]]

NoLabels == [kind |-> "none"]

(***************************************************************************)
(* Specification of the hand-off from detection to the chat seed: Init     *)
(* draws the detections YOLO returns and the bootstrap request.            *)
(***************************************************************************)
Confidences == {5, 9}

YoloDetections ==
    UNION {[1..k -> [cls_id : 1..Len(YoloNames), conf : Confidences]] : k \in 0..MaxBoxes}

BodyQuestions == { None, <<>>, <<" ">>, <<" ", "w", "h", "y">> }

BootstrapBodies ==
    [image_case_id : CaseIds, question : BodyQuestions, top_k : {1, DefaultTopK}]

HInit ==
    /\ hBoxes \in YoloDetections
    /\ hBody \in BootstrapBodies
    /\ hStored = NothingStored
    /\ hOut = NoOut
    /\ hLabel = NoLabels
    /\ NIdle
    /\ SIdle
    /\ MIdle
    /\ BIdle
    /\ TIdle
    /\ AIdle
    /\ UIdle
    /\ PIdle
    /\ GIdle
    /\ KIdle

PredictCall ==
    /\ hStored = NothingStored
    /\ hStored' = Predict(hBoxes, hBody.image_case_id)
    /\ UNCHANGED <<hBoxes, hBody, hOut, hLabel, nvars, svars, mvars, bvars, tvars, avars, uvars, pvars, gvars, kvars>>

BootstrapFromS1 ==
    /\ hOut = NoOut
    /\ \E selected \in SelectDetections(hStored.rows, hBody.top_k) :
          hOut' = BootstrapOut(hBody, hStored, selected)
    /\ UNCHANGED <<hBoxes, hBody, hStored, hLabel, nvars, svars, mvars, bvars, tvars, avars, uvars, pvars, gvars, kvars>>

AnalyzeImage ==
    /\ hLabel = NoLabels
    /\ hLabel' = AnalyzeImageLabels(hBoxes)
    /\ UNCHANGED <<hBoxes, hBody, hStored, hOut, nvars, svars, mvars, bvars, tvars, avars, uvars, pvars, gvars, kvars>>

HNext == PredictCall \/ BootstrapFromS1 \/ AnalyzeImage

SpecHandoff == HInit /\ [][HNext]_vars

(***************************************************************************)
(* Claims about display names (checked under SpecHandoff).                 *)
(***************************************************************************)
\* the display name as specified: zh without its trailing "(digits)" suffix,
\* then en in full-width parentheses; the non-empty one when one is missing
SpecDisplayName(zh, en) ==
    LET z == IF zh = None THEN <<>> ELSE Strip(StripTailNum(zh))
        e == IF en = None THEN <<>> ELSE en
    IN IF z # <<>> /\ e # <<>> THEN z \o <<"FWL">> \o e \o <<"FWR">>
       ELSE IF z # <<>> THEN z ELSE e

Bootstrapped == hOut.kind = "BootstrapOut"

\* the seed text handed back by bootstrap_from_s1
HSeed == hOut.seed_messages[2].content

\* C13 (seed text): every resolved detection of the bootstrap is listed
\* under the display name of the specified format.
C13_HandoffDisplayName ==
    Bootstrapped =>
        \A i \in 1..Len(hOut.detections) :
            LET d == hOut.detections[i]
                b == GetBoneInfo(YoloNames[d.label41])
            IN d.bone_id # 0 =>
                 \E k \in 1..Len(HSeed.lines) :
                    /\ HSeed.lines[k].kind = "bullet"
                    /\ HSeed.lines[k].name = SpecDisplayName(b.bone_zh, b.bone_en)

\* C13: every place that renders the display name of a detected bone, the
\* seed text and the label of analyze_image, renders zh without its numeric
\* suffix followed by en in full-width parentheses (the non-empty one of the
\* two when one is missing).
C13_SameDisplayNameEverywhere ==
    /\ C13_HandoffDisplayName
    /\ hLabel.kind = "labels" =>
          \A i \in 1..Len(hBoxes) :
              LET b == GetBoneZhEnByEn(YoloNames[hBoxes[i].cls_id])
              IN b.bone_id # 0 =>
                   hLabel.bones[i] = SpecDisplayName(b.bone_zh, b.bone_en)

(***************************************************************************)
(* Claims about the bootstrap (checked under SpecHandoff).                 *)
(***************************************************************************)
BlankQuestion(q) == q = None \/ Strip(q) = <<>>

\* C16: a bootstrap whose request carries no question, an empty one or only
\* whitespace puts the default question template into the seed text, and
\* the question section of a seed text is never empty.
C16_DefaultQuestion ==
    Bootstrapped =>
        /\ BlankQuestion(hBody.question) => HSeed.question = DefaultQuestion
        /\ HSeed.question # <<>>

\* a bootstrap answered for a whitespace-only question
C16_Witness ==
    /\ Bootstrapped
    /\ hBody.question = <<" ">>
    /\ HSeed.question = DefaultQuestion

\* the class has no row in dbo.Bone_Info
NoCatalogEntry(cls_id) ==
    \A r \in BoneInfoTable : r.bone_en # ModelToDbBoneEn(YoloNames[cls_id])

CountIn(seq, P(_)) == Cardinality({i \in 1..Len(seq) : P(seq[i])})

TwoCervicalOneUnknown ==
    /\ Len(hBoxes) = 3
    /\ CountIn(hBoxes, LAMBDA b : YoloNames[b.cls_id] = Cervical_Vertebrae) = 2
    /\ CountIn(hBoxes, LAMBDA b : YoloNames[b.cls_id] = Unknown_Label_X) = 1

\* C18: predict stores one row per detection, with a NULL bone id exactly
\* for the detections whose label has no catalog entry; the bootstrap counts
\* each of its detections without bone id in the unresolved bullet and the
\* others under display names; two Cervical_Vertebrae and one
\* Unknown_Label_X give one bullet of count 2 and an unresolved count of 1.
C18_UnresolvedDoesNotAbort ==
    /\ hStored.kind = "case" =>
          /\ Len(hStored.rows) = Len(hBoxes)
          /\ \A i \in 1..Len(hBoxes) :
                /\ hStored.rows[i].Label41 = hBoxes[i].cls_id
                /\ hStored.rows[i].BoneId = 0 <=> NoCatalogEntry(hBoxes[i].cls_id)
    /\ Bootstrapped =>
          LET d == hOut.detections
              b == Bullets(HSeed)
              unresolved == CountIn(d, LAMBDA x : x.bone_id = 0)
          IN /\ Len(d) = Min(hBody.top_k, Len(hBoxes))
             /\ RenderedUnresolved(HSeed) = unresolved
             /\ SumSeq([i \in 1..Len(b) |-> RenderedCount(b[i])]) = Len(d) - unresolved
             /\ (TwoCervicalOneUnknown /\ hBody.top_k >= 3) =>
                   /\ b = <<Line("bullet",
                                 zhCervical \o <<"FWL">> \o CervicalVertebrae \o <<"FWR">>, 2)>>
                   /\ RenderedUnresolved(HSeed) = 1

\* the bootstrap of two Cervical_Vertebrae and one Unknown_Label_X
C18_Witness ==
    /\ Bootstrapped
    /\ TwoCervicalOneUnknown
    /\ hBody.top_k = DefaultTopK
    /\ hStored.rows[3].BoneId = 0
    /\ RenderedUnresolved(HSeed) = 1

\* the seed text of the detections and the question of this bootstrap
ExpectedSeedText ==
    BuildSeedText(hBody.image_case_id, hOut.detections, BootstrapQuestion(hBody.question))

\* C20 as stated: the first message of seed_messages is a user message whose
\* content is the seed text.
C20_SeedTextIsFirstMessage ==
    Bootstrapped =>
        /\ hOut.seed_messages[1].role = "user"
        /\ hOut.seed_messages[1].content = ExpectedSeedText

\* C20: seed_messages is a user-role image message without content followed
\* by a user-role text message whose content is the seed text, unmodified.
C20_SeedTextIsFirstTextMessage ==
    Bootstrapped =>
        /\ Len(hOut.seed_messages) = 2
        /\ hOut.seed_messages[1].role = "user"
        /\ hOut.seed_messages[1].type = "image"
        /\ hOut.seed_messages[1].content = NoContent
        /\ hOut.seed_messages[2].role = "user"
        /\ hOut.seed_messages[2].type = "text"
        /\ hOut.seed_messages[2].content = ExpectedSeedText

\* a bootstrap that returned the seed messages of a case with detections
C20_Witness ==
    /\ Bootstrapped
    /\ Len(hOut.detections) = 2
    /\ hOut.seed_messages[2].content.kind = "seed"

(***************************************************************************)
(* Further claims about the seed text (checked under SpecSeed).            *)
(***************************************************************************)
\* the display names of the detections that have one
DisplayNames(dets) ==
    {DisplayName(dets[i].bone_zh, dets[i].bone_en) : i \in 1..Len(dets)} \ {None, <<>>}

CountOf(dets, name) ==
    Cardinality({i \in 1..Len(dets) : DisplayName(dets[i].bone_zh, dets[i].bone_en) = name})

\* C14: the seed text has exactly one bullet for every distinct display
\* name and no other name bullet, and a bullet carries the count suffix
\* exactly when its name was counted more than once.
C14_OneBulletPerName ==
    sSeed.kind = "seed" =>
        LET b == Bullets(sSeed)
        IN /\ \A name \in DisplayNames(sDets) :
                 Cardinality({i \in 1..Len(b) : b[i].name = name}) = 1
           /\ \A i \in 1..Len(b) :
                 /\ b[i].name \in DisplayNames(sDets)
                 /\ b[i].times # 0 <=> CountOf(sDets, b[i].name) > 1
                 /\ b[i].times # 0 => b[i].times = CountOf(sDets, b[i].name)

\* a seed text with a bullet of count 2 and a bullet without suffix
C14_Witness ==
    /\ sSeed.kind = "seed"
    /\ \E i, j \in 1..Len(sSeed.lines) :
          /\ sSeed.lines[i].kind = "bullet" /\ sSeed.lines[i].times = 2
          /\ sSeed.lines[j].kind = "bullet" /\ sSeed.lines[j].times = 0

LinesOfKind(seed, kind) == SelectSeq(seed.lines, LAMBDA l : l.kind = kind)

\* C15: the seed text of an empty detection list names the given case id
\* and has no name bullet, exactly one no-results bullet and no unresolved
\* bullet.
C15_EmptyDetectionList ==
    (sSeed.kind = "seed" /\ sDets = <<>>) =>
        /\ sSeed.ImageCaseId = sCase
        /\ Len(LinesOfKind(sSeed, "bullet")) = 0
        /\ Len(LinesOfKind(sSeed, "no_results")) = 1
        /\ Len(LinesOfKind(sSeed, "unresolved")) = 0

\* the seed text built for an empty detection list
C15_Witness ==
    /\ sSeed.kind = "seed"
    /\ sDets = <<>>
    /\ sSeed.ImageCaseId \in CaseIds

ScopeInstructions ==
    { "only_detected_parts_and_this_image",
      "no_unrelated_medical_topics",
      "flag_insufficient_information" }

\* C17: the closing block of every seed text holds the three instructions:
\* stay with the listed parts and this image, bring in no unrelated medical
\* topic, and flag insufficient information instead of guessing.
C17_ThreeScopeInstructions ==
    sSeed.kind = "seed" =>
        ScopeInstructions \subseteq {sSeed.constraints[i] : i \in 1..Len(sSeed.constraints)}

(***************************************************************************)
(* Claim about database failures (checked under SpecBones).                *)
(***************************************************************************)
\* C19: an operation whose database call raises ends with the exception
\* reaching its caller, never with a returned value.
C19_FailurePropagates ==
    (bFails /\ bResp.kind \in {"returned", "raised"}) => bResp.kind = "raised"

(***************************************************************************)
(* Automatic conversation titles: db.set_conversation_title_if_empty,      *)
(* ensure_title and the legacy s2_agent/db.set_conversation_title_if_empty. *)
(* The two first are one UPDATE statement each; the legacy one is a SELECT *)
(* followed by an UPDATE, with other requests free to run in between.      *)
(***************************************************************************)
ConvTitleMax == 60
LegacyTitleMax == 30

\* t[:n]
Truncate(t, n) == SubSeq(t, 1, IF Len(t) < n THEN Len(t) ELSE n)

\* _safe_title: "\r" and "\n" become spaces, strip, cut to _CONV_TITLE_MAX
SafeTitle(seed) ==
    IF seed = None \/ seed = <<>> THEN None
    ELSE LET t == Strip(Replace(Replace(seed, "\r", <<" ">>), "\n", <<" ">>))
         IN IF t = <<>> THEN None ELSE Truncate(t, ConvTitleMax)

\* Title IS NULL OR LTRIM(RTRIM(Title)) = '': only spaces are trimmed
SqlBlank(title) == title = None \/ \A i \in 1..Len(title) : title[i] = " "

\* db.set_conversation_title_if_empty: the Title the UPDATE ... CASE leaves
BackendTitleAfter(exists, title, valid_conv_id, title_seed) ==
    IF ~valid_conv_id THEN title
    ELSE IF SafeTitle(title_seed) = None THEN title
    ELSE IF exists /\ SqlBlank(title) THEN SafeTitle(title_seed)
    ELSE title

\* the fixed title of ensure_title
CaseTitle(image_case_id) == <<"ImageCaseId: ", ToString(image_case_id), " zh_result">>

\* ensure_title: the Title the UPDATE ... WHERE leaves; 400 leaves it alone
EnsureTitleAfter(exists, title, blank_conv_id, image_case_id) ==
    IF blank_conv_id THEN title
    ELSE IF image_case_id <= 0 THEN title
    ELSE IF exists /\ SqlBlank(title) THEN CaseTitle(image_case_id)
    ELSE title

\* the legacy short_title: first_text.strip()[:30], None when it returns early
LegacyShortTitle(first_text) ==
    IF first_text = None \/ first_text = <<>> THEN None
    ELSE IF Strip(first_text) = <<>> THEN None
    ELSE Truncate(Strip(first_text), LegacyTitleMax)

\* the legacy SELECT and its early returns: the title the request goes on to
\* write, None when it returns without an UPDATE
LegacyPending(exists, title, first_text) ==
    IF LegacyShortTitle(first_text) = None THEN None
    ELSE IF ~exists THEN None
    ELSE IF title # None /\ title # <<>> THEN None
    ELSE LegacyShortTitle(first_text)

Requests == {"req1", "req2"}

LongText == [i \in 1..(ConvTitleMax + 1) |-> "x"]

TitleSeeds == { None, <<" ">>, <<"a">>, <<"\n", "b", " ">>, <<"c", "\n", "d">>, LongText }

InitialTitles == { None, <<>>, <<" ">>, <<"o", "l", "d">> }

TInit ==
    /\ tExists \in BOOLEAN
    /\ tTitle \in InitialTitles
    /\ tPc = [r \in Requests |-> None]
    /\ NIdle
    /\ SIdle
    /\ MIdle
    /\ BIdle
    /\ HIdle
    /\ AIdle
    /\ UIdle
    /\ PIdle
    /\ GIdle
    /\ KIdle

SetConversationTitleIfEmpty ==
    /\ \E valid_conv_id \in BOOLEAN, title_seed \in TitleSeeds :
          tTitle' = BackendTitleAfter(tExists, tTitle, valid_conv_id, title_seed)
    /\ UNCHANGED <<tExists, tPc, nvars, svars, mvars, bvars, hvars, avars, uvars, pvars, gvars, kvars>>

EnsureTitle ==
    /\ \E blank_conv_id \in BOOLEAN, image_case_id \in {0, 7, 42} :
          tTitle' = EnsureTitleAfter(tExists, tTitle, blank_conv_id, image_case_id)
    /\ UNCHANGED <<tExists, tPc, nvars, svars, mvars, bvars, hvars, avars, uvars, pvars, gvars, kvars>>

LegacySelectTitle ==
    /\ \E r \in Requests, first_text \in TitleSeeds :
          /\ tPc[r] = None
          /\ tPc' = [tPc EXCEPT ![r] = LegacyPending(tExists, tTitle, first_text)]
    /\ UNCHANGED <<tExists, tTitle, nvars, svars, mvars, bvars, hvars, avars, uvars, pvars, gvars, kvars>>

LegacyUpdateTitle ==
    /\ \E r \in Requests :
          /\ tPc[r] # None
          /\ tTitle' = tPc[r]
          /\ tPc' = [tPc EXCEPT ![r] = None]
    /\ UNCHANGED <<tExists, nvars, svars, mvars, bvars, hvars, avars, uvars, pvars, gvars, kvars>>

TNext == SetConversationTitleIfEmpty \/ EnsureTitle \/ LegacySelectTitle \/ LegacyUpdateTitle

SpecTitle == TInit /\ [][TNext]_vars

\* C21: no step of the automatic titling operations changes a Title that
\* is neither NULL nor blank.
C21_FirstAutoTitleWins ==
    [][~SqlBlank(tTitle) => tTitle' = tTitle]_vars

\* C21 for the two single-statement operations: a step of
\* db.set_conversation_title_if_empty or ensure_title never changes a Title
\* that is neither NULL nor blank.
C21_AtomicTitleWins ==
    [][(SetConversationTitleIfEmpty \/ EnsureTitle) =>
          (~SqlBlank(tTitle) => tTitle' = tTitle)]_vars

(***************************************************************************)
(* s0_annotation/annotations.py: save_annotations.  The handler runs a     *)
(* DELETE through db.execute (its own connection, committed) and then a    *)
(* batch INSERT through execute_many, so a request is two committed steps. *)
(***************************************************************************)
MaxAnnBoxes == 2
MaxAnnRows == 4

S0Source == "s0_annotation"

AnnCases == {1, 2}

\* a box of the payload: its boneId and the kind of polygon it carries;
\* "bad" is a polyJson of four points whose coordinates are not numbers, for
\* which float() raises in _normalize_poly
AnnBoxes ==
    { [boneId |-> 11, poly |-> "none"], [boneId |-> 12, poly |-> "bad"] }

RECURSIVE SeqsUpTo(_, _)
SeqsUpTo(S, n) ==
    IF n = 0 THEN { <<>> }
    ELSE LET shorter == SeqsUpTo(S, n - 1)
         IN shorter \cup { Append(q, x) : q \in { t \in shorter : Len(t) = n - 1 }, x \in S }

AnnBoxLists == SeqsUpTo(AnnBoxes, MaxAnnBoxes)

AnnRow(image_case_id, source, bone_id) ==
    [ImageCaseId |-> image_case_id, Source |-> source, BoneId |-> bone_id]

\* DELETE FROM vision.ImageAnnotation WHERE ImageCaseId = ? AND Source = 's0_annotation'
DeleteAnnotations(rows, image_case_id) ==
    LET Keep(row) == ~(row.ImageCaseId = image_case_id /\ row.Source = S0Source)
    IN SelectSeq(rows, Keep)

\* the loop that builds params_list raises when a polygon cannot be normalised
ParamsRaise(boxes) == \E i \in 1..Len(boxes) : boxes[i].poly = "bad"

ParamsList(image_case_id, boxes) ==
    [i \in 1..Len(boxes) |-> AnnRow(image_case_id, S0Source, boxes[i].boneId)]

\* execute_many(insert_sql, params_list, fast=True): one INSERT per tuple
ExecuteMany(rows, params_list) == rows \o params_list

AnnOfCase(rows, image_case_id) ==
    LET Mine(row) == row.ImageCaseId = image_case_id /\ row.Source = S0Source
    IN SelectSeq(rows, Mine)

AnnElsewhere(rows, image_case_id) ==
    LET Other(row) == ~(row.ImageCaseId = image_case_id /\ row.Source = S0Source)
    IN SelectSeq(rows, Other)

AnnIdle == [phase |-> "idle", imageCaseId |-> 0, boxes |-> <<>>]
AnnPending == [kind |-> "pending", imageCaseId |-> 0, count |-> 0]
AnnOk(image_case_id, count) == [kind |-> "ok", imageCaseId |-> image_case_id, count |-> count]
AnnError == [kind |-> "error", imageCaseId |-> 0, count |-> 0]

InitialAnnotations ==
    { <<>>,
      <<AnnRow(1, S0Source, 11)>>,
      <<AnnRow(1, "s1_detection", 11), AnnRow(2, S0Source, 12)>>,
      <<AnnRow(1, S0Source, 11), AnnRow(1, S0Source, 12), AnnRow(2, S0Source, 11)>> }

AInit ==
    /\ aRows \in InitialAnnotations
    /\ aPc = [r \in Requests |-> AnnIdle]
    /\ aRet = [r \in Requests |-> AnnPending]
    /\ NIdle
    /\ SIdle
    /\ MIdle
    /\ BIdle
    /\ HIdle
    /\ TIdle
    /\ UIdle
    /\ PIdle
    /\ GIdle
    /\ KIdle

\* the request arrives: payload.imageCaseId and payload.boxes are bound
SaveAnnotationsBegin ==
    /\ \E r \in Requests, image_case_id \in AnnCases, boxes \in AnnBoxLists :
          /\ aPc[r].phase = "idle"
          /\ Len(aRows) + Len(boxes) <= MaxAnnRows
          /\ aPc' = [aPc EXCEPT ![r] = [phase |-> "delete", imageCaseId |-> image_case_id,
                                        boxes |-> boxes]]
          /\ aRet' = [aRet EXCEPT ![r] = AnnPending]
    /\ UNCHANGED <<aRows, nvars, svars, mvars, bvars, hvars, tvars, uvars, pvars, gvars, kvars>>

\* execute(delete_sql), then the early return for an empty box list
SaveAnnotationsDelete ==
    /\ \E r \in Requests :
          /\ aPc[r].phase = "delete"
          /\ aRows' = DeleteAnnotations(aRows, aPc[r].imageCaseId)
          /\ IF aPc[r].boxes = <<>>
                THEN /\ aPc' = [aPc EXCEPT ![r] = AnnIdle]
                     /\ aRet' = [aRet EXCEPT ![r] = AnnOk(aPc[r].imageCaseId, 0)]
                ELSE /\ aPc' = [aPc EXCEPT ![r].phase = "insert"]
                     /\ aRet' = aRet
    /\ UNCHANGED <<nvars, svars, mvars, bvars, hvars, tvars, uvars, pvars, gvars, kvars>>

\* the params_list loop and execute_many, then the response
SaveAnnotationsInsert ==
    /\ \E r \in Requests :
          /\ aPc[r].phase = "insert"
          /\ aPc' = [aPc EXCEPT ![r] = AnnIdle]
          /\ IF ParamsRaise(aPc[r].boxes)
                THEN /\ aRows' = aRows
                     /\ aRet' = [aRet EXCEPT ![r] = AnnError]
                ELSE /\ aRows' = ExecuteMany(aRows, ParamsList(aPc[r].imageCaseId, aPc[r].boxes))
                     /\ aRet' = [aRet EXCEPT ![r] = AnnOk(aPc[r].imageCaseId, Len(aPc[r].boxes))]
    /\ UNCHANGED <<nvars, svars, mvars, bvars, hvars, tvars, uvars, pvars, gvars, kvars>>

ANext == SaveAnnotationsBegin \/ SaveAnnotationsDelete \/ SaveAnnotationsInsert

SpecAnnotations == AInit /\ [][ANext]_vars

ReturnsOk(r) == aRet[r] = AnnPending /\ aRet'[r].kind = "ok"

\* C22: when save_annotations returns successfully for case c with boxes B,
\* the stored rows of case c with Source 's0_annotation' are exactly one row
\* per box of B, and the rows of other cases and sources are as they were.
C22_SaveOverwrites ==
    [][\A r \in Requests :
          ReturnsOk(r) =>
              /\ AnnOfCase(aRows', aPc[r].imageCaseId)
                    = ParamsList(aPc[r].imageCaseId, aPc[r].boxes)
              /\ Len(AnnOfCase(aRows', aPc[r].imageCaseId)) = aRet'[r].count
              /\ AnnElsewhere(aRows', aPc[r].imageCaseId)
                    = AnnElsewhere(aRows, aPc[r].imageCaseId)]_vars

\* the frame half alone: no step of a save touches a row of another case or
\* of another source
C22_OtherRowsUntouched ==
    [][\A r \in Requests :
          aPc[r].phase \in {"delete", "insert"} /\ aPc'[r] /= aPc[r] =>
              AnnElsewhere(aRows', aPc[r].imageCaseId)
                 = AnnElsewhere(aRows, aPc[r].imageCaseId)]_vars

(***************************************************************************)
(* s2_agent/router.py and s2_agent/materials.py: upload_material, and      *)
(* materials.py: delete_one.  A file is named by the number of the upload  *)
(* that drew its uuid4 name; MaterialId is the identity the INSERT returns.*)
(* The outcomes of the file system, the database and the vector store are  *)
(* inputs of the handlers, one per except branch of the code.              *)
(***************************************************************************)
MaxMaterials == 3

\* the names bound at module level in materials.py (imports and definitions)
MaterialsModuleNames ==
    { "Optional", "Path", "uuid4", "UUID", "traceback", "APIRouter", "UploadFile",
      "File", "Form", "HTTPException", "BaseModel", "get_connection",
      "index_material", "Query", "VectorStore", "FileResponse" }

NameDefined(name) == name \in MaterialsModuleNames

WriteOutcomes == {"ok", "open_fails", "write_fails"}
InsertOutcomes == {"ok", "raises", "no_row"}

UploadOut(status, file, material_id) ==
    [op |-> "upload", status |-> status, file |-> file, material_id |-> material_id,
     reachable |-> FALSE]

DeleteOut(file, material_id, reachable) ==
    [op |-> "delete", status |-> 200, file |-> file, material_id |-> material_id,
     reachable |-> reachable]

\* try: if full_path.exists(): full_path.unlink()  except Exception: pass
Unlink(files, file, unlink_ok) == IF unlink_ok THEN files \ {file} ELSE files

\* with open(full_path, "wb") as f: f.write(content)
FilesAfterWrite(files, file, write) ==
    IF write = "open_fails" THEN files ELSE files \cup {file}

\* SELECT FilePath FROM agent.TeachingMaterial WHERE MaterialId = ?; 0 is no row
FilePathOf(rows, material_id) ==
    IF \E row \in rows : row.MaterialId = material_id
    THEN (CHOOSE row \in rows : row.MaterialId = material_id).FilePath
    ELSE 0

\* the try block of step 3 of delete_one: VectorStore() raises when the store
\* is unreachable, and os.getenv raises NameError when os is not a name of the
\* module; either way the except branch passes and nothing is deleted
DeletePoints(points, material_id, reachable) ==
    IF ~reachable THEN points
    ELSE IF ~NameDefined("os") THEN points
    ELSE points \ {material_id}

UInit ==
    /\ uFiles = {}
    /\ uRows = {}
    /\ uPoints = {}
    /\ uSeq = 0
    /\ uOut = [op |-> "none", status |-> 0, file |-> 0, material_id |-> 0, reachable |-> FALSE]
    /\ NIdle
    /\ SIdle
    /\ MIdle
    /\ BIdle
    /\ HIdle
    /\ TIdle
    /\ AIdle
    /\ PIdle
    /\ GIdle
    /\ KIdle

UploadMaterial ==
    /\ uSeq < MaxMaterials
    /\ \E content_empty \in BOOLEAN, write \in WriteOutcomes, insert \in InsertOutcomes,
          unlink_ok \in BOOLEAN, index_ok \in BOOLEAN :
          LET file == uSeq + 1
              material_id == uSeq + 1
              written == FilesAfterWrite(uFiles, file, write)
          IN /\ uSeq' = uSeq + 1
             /\ IF content_empty
                   THEN /\ uOut' = UploadOut(400, file, 0)
                        /\ UNCHANGED <<uFiles, uRows, uPoints>>
                ELSE IF write /= "ok"
                   THEN /\ uOut' = UploadOut(500, file, 0)
                        /\ uFiles' = written
                        /\ UNCHANGED <<uRows, uPoints>>
                ELSE IF insert /= "ok"
                   THEN /\ uOut' = UploadOut(500, file, 0)
                        /\ uFiles' = Unlink(written, file, unlink_ok)
                        /\ UNCHANGED <<uRows, uPoints>>
                ELSE /\ uOut' = UploadOut(200, file, material_id)
                     /\ uFiles' = written
                     /\ uRows' = uRows \cup {[MaterialId |-> material_id, FilePath |-> file]}
                     /\ uPoints' = IF index_ok THEN uPoints \cup {material_id} ELSE uPoints
    /\ UNCHANGED <<nvars, svars, mvars, bvars, hvars, tvars, avars, pvars, gvars, kvars>>

DeleteOne ==
    /\ \E material_id \in 1..MaxMaterials, unlink_ok \in BOOLEAN, reachable \in BOOLEAN :
          LET file_path == FilePathOf(uRows, material_id)
          IN /\ uRows' = { row \in uRows : row.MaterialId /= material_id }
             /\ uFiles' = IF file_path /= 0 /\ file_path \in uFiles
                             THEN Unlink(uFiles, file_path, unlink_ok)
                             ELSE uFiles
             /\ uPoints' = DeletePoints(uPoints, material_id, reachable)
             /\ uOut' = DeleteOut(file_path, material_id, reachable)
    /\ UNCHANGED <<uSeq, nvars, svars, mvars, bvars, hvars, tvars, avars, pvars, gvars, kvars>>

UNext == UploadMaterial \/ DeleteOne

SpecMaterials == UInit /\ [][UNext]_vars

UploadFailed == uOut.op = "upload" /\ uOut.status \in {400, 500}
UploadSucceeded == uOut.op = "upload" /\ uOut.status = 200

\* C23: when upload_material ends in an error no file written by the request
\* remains in the materials directory; when it succeeds exactly one file and
\* one TeachingMaterial row exist for it.
C23_UploadLeavesNoOrphan ==
    /\ UploadFailed => uOut.file \notin uFiles
    /\ UploadSucceeded =>
          /\ uOut.file \in uFiles
          /\ Cardinality({ row \in uRows : row.FilePath = uOut.file }) = 1

\* the success half alone
C23_SuccessHasFileAndRow ==
    UploadSucceeded =>
        /\ uOut.file \in uFiles
        /\ { row \in uRows : row.FilePath = uOut.file }
              = { [MaterialId |-> uOut.material_id, FilePath |-> uOut.file] }

\* C24: after delete_one(material_id) returns, the material's row is gone, its
\* file is gone and, when the vector store is reachable, no point whose
\* payload material_id is that id remains.
C24_NothingLeftBehind ==
    uOut.op = "delete" =>
        /\ \A row \in uRows : row.MaterialId /= uOut.material_id
        /\ uOut.file \notin uFiles
        /\ uOut.reachable => uOut.material_id \notin uPoints

\* the database half alone
C24_RowIsGone ==
    uOut.op = "delete" => \A row \in uRows : row.MaterialId /= uOut.material_id

(***************************************************************************)
(* s1_detection/bone_service.py: assign_spine_levels, and                  *)
(* s1_detection/backend/utils/spine_postprocess.py:                        *)
(* postprocess_spine_levels.  A box carries its class name and the y       *)
(* coordinates of its polygon; boxes are indexed from 1.                   *)
(***************************************************************************)
MaxSpineBoxes == 7

SpineClassOrder == <<"Cervical_Vertebrae", "Thoracic_Vertebrae", "Lumbar_Vertebrae">>

SpineClasses == { SpineClassOrder[i] : i \in 1..Len(SpineClassOrder) }

SPINE_LEVELS(major_name) ==
    IF major_name = "Cervical_Vertebrae"
    THEN <<"C1", "C2", "C3", "C4", "C5", "C6", "C7">>
    ELSE IF major_name = "Thoracic_Vertebrae"
    THEN <<"T1", "T2", "T3", "T4", "T5", "T6", "T7", "T8", "T9", "T10", "T11", "T12">>
    ELSE <<"L1", "L2", "L3", "L4", "L5">>

\* sum(ys) / len(ys) if ys else 0; the polygons of the model have an integer centre
YCenter(box) == IF box.ys = <<>> THEN 0 ELSE SumSeq(box.ys) \div Len(box.ys)

\* the indices of the boxes of one class, in the order of the list
RECURSIVE SameCls(_, _, _)
SameCls(boxes, major_name, from) ==
    IF from > Len(boxes) THEN <<>>
    ELSE (IF boxes[from].cls_name = major_name THEN <<from>> ELSE <<>>)
            \o SameCls(boxes, major_name, from + 1)

\* insertion behind every index whose centre is not greater: a stable sort
RECURSIVE InsertByY(_, _, _)
InsertByY(boxes, sorted, idx) ==
    IF sorted = <<>> THEN <<idx>>
    ELSE IF YCenter(boxes[Head(sorted)]) <= YCenter(boxes[idx])
         THEN <<Head(sorted)>> \o InsertByY(boxes, Tail(sorted), idx)
         ELSE <<idx>> \o sorted

RECURSIVE SortByY(_, _, _)
SortByY(boxes, items, sorted) ==
    IF items = <<>> THEN sorted
    ELSE SortByY(boxes, Tail(items), InsertByY(boxes, sorted, Head(items)))

\* the boxes of a class left in the order of the list
SortedCls_Unsorted(boxes, major_name) == SameCls(boxes, major_name, 1)

\* sorted(same_cls, key=y_center)
SortedCls(boxes, major_name) == SortByY(boxes, SameCls(boxes, major_name, 1), <<>>)

\* level_list[i] if i < len(level_list) else "unknown", for the 1-based position
LevelAt(level_list, i) == IF i <= Len(level_list) THEN level_list[i] ELSE "unknown"

PositionIn(seq, x) == CHOOSE i \in 1..Len(seq) : seq[i] = x

AssignSpineLevels(boxes) ==
    [idx \in { i \in 1..Len(boxes) : boxes[i].cls_name \in SpineClasses } |->
        LET major_name == boxes[idx].cls_name
        IN LevelAt(SPINE_LEVELS(major_name),
                   PositionIn(SortedCls(boxes, major_name), idx))]

\* a detection of the output: the index of the input detection and its
\* sub_label, "" when the detection has no sub_label key
LabelledSubset(dets, major_name) ==
    LET sorted == SortedCls(dets, major_name)
    IN [i \in 1..Len(sorted) |->
          [idx |-> sorted[i], sub_label |-> LevelAt(SPINE_LEVELS(major_name), i)]]

RECURSIVE OtherDets(_, _)
OtherDets(dets, from) ==
    IF from > Len(dets) THEN <<>>
    ELSE (IF dets[from].cls_name \notin SpineClasses
             THEN <<[idx |-> from, sub_label |-> ""]>> ELSE <<>>)
            \o OtherDets(dets, from + 1)

PostprocessSpineLevels(dets) ==
    LabelledSubset(dets, SpineClassOrder[1]) \o LabelledSubset(dets, SpineClassOrder[2])
       \o LabelledSubset(dets, SpineClassOrder[3]) \o OtherDets(dets, 1)

SpineBoxPool ==
    { [cls_name |-> "Lumbar_Vertebrae", ys |-> <<3, 3, 5, 5>>],
      [cls_name |-> "Lumbar_Vertebrae", ys |-> <<1, 1, 3, 3>>],
      [cls_name |-> "Cervical_Vertebrae", ys |-> <<>>],
      [cls_name |-> "Femur", ys |-> <<2, 2, 2, 2>>] }

PInit ==
    /\ pBoxes \in SeqsUpTo(SpineBoxPool, MaxSpineBoxes)
    /\ pSub = <<>>
    /\ pDets = <<>>
    /\ pDone = {}
    /\ NIdle
    /\ SIdle
    /\ MIdle
    /\ BIdle
    /\ HIdle
    /\ TIdle
    /\ AIdle
    /\ UIdle
    /\ GIdle
    /\ KIdle

AssignSpineLevelsCall ==
    /\ "assign" \notin pDone
    /\ pSub' = AssignSpineLevels(pBoxes)
    /\ pDone' = pDone \cup {"assign"}
    /\ UNCHANGED <<pBoxes, pDets, nvars, svars, mvars, bvars, hvars, tvars, avars, uvars, gvars, kvars>>

PostprocessSpineLevelsCall ==
    /\ "postprocess" \notin pDone
    /\ pDets' = PostprocessSpineLevels(pBoxes)
    /\ pDone' = pDone \cup {"postprocess"}
    /\ UNCHANGED <<pBoxes, pSub, nvars, svars, mvars, bvars, hvars, tvars, avars, uvars, gvars, kvars>>

PNext == AssignSpineLevelsCall \/ PostprocessSpineLevelsCall

SpecSpine == PInit /\ [][PNext]_vars

\* the boxes of the class of box i that lie strictly above it, and those that
\* lie above it or level with it (box i among them)
StrictlyAbove(i) ==
    { j \in 1..Len(pBoxes) : /\ pBoxes[j].cls_name = pBoxes[i].cls_name
                             /\ YCenter(pBoxes[j]) < YCenter(pBoxes[i]) }

NotBelow(i) ==
    { j \in 1..Len(pBoxes) : /\ pBoxes[j].cls_name = pBoxes[i].cls_name
                             /\ YCenter(pBoxes[j]) <= YCenter(pBoxes[i]) }

\* the positions k for which sub is the k-th level of the class of box i
RanksOf(i, sub) ==
    LET level_list == SPINE_LEVELS(pBoxes[i].cls_name)
    IN IF sub = "unknown"
       THEN { k \in 1..Len(pBoxes) : k > Len(level_list) }
       ELSE { k \in 1..Len(level_list) : level_list[k] = sub }

\* C25: assign_spine_levels gives the k-th topmost box of a spine class the
\* k-th level of the class, "unknown" beyond the last level, no level other
\* than "unknown" to two boxes, and no sub-label to a box of another class.
C25_LevelsFollowYOrder ==
    "assign" \in pDone =>
        /\ DOMAIN pSub = { i \in 1..Len(pBoxes) : pBoxes[i].cls_name \in SpineClasses }
        /\ \A i \in DOMAIN pSub :
              \E k \in RanksOf(i, pSub[i]) :
                 /\ Cardinality(StrictlyAbove(i)) < k
                 /\ k <= Cardinality(NotBelow(i))
        /\ \A i, j \in DOMAIN pSub :
              i /= j /\ pSub[i] = pSub[j] => pSub[i] = "unknown"

\* six lumbar boxes that are not listed top to bottom, beside a box of
\* another class: the sixth from the top is beyond L5
C25_Witness ==
    /\ "assign" \in pDone
    /\ \E i, j \in DOMAIN pSub :
          /\ i < j
          /\ pBoxes[i].cls_name = pBoxes[j].cls_name
          /\ YCenter(pBoxes[i]) > YCenter(pBoxes[j])
          /\ pSub[j] = "L1"
          /\ pSub[i] = "unknown"
    /\ \E i \in 1..Len(pBoxes) : i \notin DOMAIN pSub

\* postprocess_spine_levels labels the same boxes with the same levels
C25_PostprocessAgrees ==
    pDone = {"assign", "postprocess"} =>
        \A n \in 1..Len(pDets) :
           IF pDets[n].idx \in DOMAIN pSub
           THEN pDets[n].sub_label = pSub[pDets[n].idx]
           ELSE pDets[n].sub_label = ""

(***************************************************************************)
(* db.py: session_to_conversation_uuid, ensure_conversation_exists,        *)
(* add_message; legacy_agent/backend/app/main.py: agent_chat;              *)
(* state/sessions.py: get_session, append_messages.                        *)
(* An id string is a record: a GUID in 8-4-4-4-12 form with its identity,  *)
(* its version and variant nibbles and its letter case, or a plain string; *)
(* padded says that white space surrounds it.                              *)
(***************************************************************************)
MaxChatRows == 3

GuidText(key, nibbles, form, padded) ==
    [kind |-> "guid", key |-> key, nibbles |-> nibbles, form |-> form, padded |-> padded]

PlainText(key, padded) ==
    [kind |-> "plain", key |-> key, nibbles |-> <<>>, form |-> "plain", padded |-> padded]

ValueError == [kind |-> "ValueError", key |-> "", nibbles |-> <<>>, form |-> "", padded |-> FALSE]

\* not s: None and the empty string
Falsy(t) == t.kind = "plain" /\ t.key = "" /\ ~t.padded

StripText(t) == [t EXCEPT !.padded = FALSE]

\* _UUID_RE: 8-4-4-4-12 hex digits of either case, version nibble 1..5,
\* variant nibble 8, 9, a or b
IsUuid(t) ==
    /\ ~Falsy(t)
    /\ StripText(t).kind = "guid"
    /\ t.nibbles[1] \in {"1", "2", "3", "4", "5"}
    /\ t.nibbles[2] \in {"8", "9", "a", "b"}

\* str(uuid.UUID(s)): the same GUID, lower case
CanonicalGuid(t) == GuidText(t.key, t.nibbles, "lower", FALSE)

\* str(uuid.uuid5(NAMESPACE_URL, "BoneOrthoSystem:" + s)): a version 5 GUID
\* that is a function of the name
Uuid5(t) == GuidText(ToString(t), <<"5", "8">>, "lower", FALSE)

session_to_conversation_uuid_Hashed(session_id) ==
    LET t == StripText(session_id)
    IN IF Falsy(t) THEN ValueError ELSE Uuid5(t)

session_to_conversation_uuid(session_id) ==
    LET t == StripText(session_id)
    IN IF Falsy(t) THEN ValueError
       ELSE IF IsUuid(t) THEN CanonicalGuid(t)
       ELSE Uuid5(t)

\* get_session(session_id)["messages"], [] for a session that does not exist yet
SessionMessages(sessions, id) == IF id \in DOMAIN sessions THEN sessions[id] ELSE <<>>

\* get_session followed by an append to session["messages"]
AppendMessages(sessions, id, new_msgs) ==
    [k \in DOMAIN sessions \cup {id} |->
        IF k = id THEN SessionMessages(sessions, id) \o new_msgs ELSE sessions[k]]

ChatMessage(role, type, content) == [role |-> role, type |-> type, content |-> content]

\* the state add_message leaves: the Conversation row of the normalised id is
\* ensured and one ConversationMessage row is inserted
AddMessage(db, conversation_id, role) ==
    LET conv_id == session_to_conversation_uuid(conversation_id)
    IN [convs |-> db.convs \cup {conv_id},
        msgs |-> Append(db.msgs, [ConversationId |-> conv_id, Role |-> role])]

ChatOut(status, detail, given, conversation_id, written) ==
    [status |-> status, detail |-> detail, given |-> given,
     conversation_id |-> conversation_id, written |-> written]

\* agent_chat(req): the response with the sessions and the database it leaves
AgentChat(sessions, db, req) ==
    LET same == [sessions |-> sessions, db |-> db]
    IN
    IF Falsy(req.session_id)
    THEN [out |-> ChatOut(400, "session_id is required", req.session_id, ValueError, 0)] @@ same
    ELSE IF req.messages = <<>>
    THEN [out |-> ChatOut(400, "messages is empty", req.session_id, ValueError, 0)] @@ same
    ELSE
    LET raw_cid == StripText(req.conversation_id)
        given == IF ~Falsy(raw_cid) THEN raw_cid ELSE StripText(req.session_id)
        conversation_id == session_to_conversation_uuid(given)
        last == req.messages[Len(req.messages)]
        ensured == [convs |-> db.convs \cup {conversation_id}, msgs |-> db.msgs]
        appended == AppendMessages(sessions, conversation_id, <<last>>)
        stored == IF last.role = "user" THEN AddMessage(ensured, conversation_id, "user")
                  ELSE ensured
        reply == ChatMessage("assistant", "text", <<"o", "k">>)
        replied == [sessions |-> AppendMessages(appended, conversation_id, <<reply>>),
                    db |-> AddMessage(stored, conversation_id, "assistant")]
    IN
    IF conversation_id = ValueError
    THEN [out |-> ChatOut(500, "session_id is empty", given, ValueError, 0)] @@ same
    ELSE IF last.type = "image" /\ last.role = "user"
    THEN [out |-> ChatOut(200, "", given, conversation_id, 2)] @@ replied
    ELSE IF last.type = "text" /\ last.role = "user"
    THEN IF Strip(last.content) = <<>>
         THEN [out |-> ChatOut(400, "empty text message", given, conversation_id, 1),
               sessions |-> appended, db |-> stored]
         ELSE [out |-> ChatOut(200, "", given, conversation_id, 2)] @@ replied
    ELSE [out |-> ChatOut(200, "", given, conversation_id, 0),
          sessions |-> appended, db |-> stored]

SessionIds ==
    { PlainText("", FALSE), PlainText("", TRUE), PlainText("demo", FALSE),
      PlainText("demo", TRUE), GuidText("g1", <<"4", "a">>, "lower", FALSE) }

ConversationIds ==
    { PlainText("", FALSE), GuidText("g1", <<"4", "a">>, "lower", FALSE),
      GuidText("g1", <<"4", "a">>, "upper", TRUE), GuidText("g2", <<"0", "0">>, "lower", FALSE) }

ChatMessageLists ==
    { <<>>,
      <<ChatMessage("user", "text", <<"h", "i">>)>>,
      <<ChatMessage("user", "text", <<" ">>)>>,
      <<ChatMessage("user", "image", <<>>)>>,
      <<ChatMessage("assistant", "text", <<"h", "i">>), ChatMessage("assistant", "text", <<"h", "i">>)>> }

GInit ==
    /\ gSessions = <<>>
    /\ gConvs = {}
    /\ gMsgs = <<>>
    /\ gOut = ChatOut(0, "", PlainText("", FALSE), ValueError, 0)
    /\ NIdle
    /\ SIdle
    /\ MIdle
    /\ BIdle
    /\ HIdle
    /\ TIdle
    /\ AIdle
    /\ UIdle
    /\ PIdle
    /\ KIdle

\* how many messages the in-memory sessions hold
SessionLoad(sessions) ==
    Cardinality({ ki \in (DOMAIN sessions) \X (1..(MaxChatRows + 2)) :
                     ki[2] <= Len(sessions[ki[1]]) })

AgentChatCall ==
    /\ SessionLoad(gSessions) < MaxChatRows
    /\ \E session_id \in SessionIds, conversation_id \in ConversationIds,
          messages \in ChatMessageLists :
          LET r == AgentChat(gSessions, [convs |-> gConvs, msgs |-> gMsgs],
                             [session_id |-> session_id, conversation_id |-> conversation_id,
                              messages |-> messages])
          IN /\ gSessions' = r.sessions
             /\ gConvs' = r.db.convs
             /\ gMsgs' = r.db.msgs
             /\ gOut' = r.out
    /\ UNCHANGED <<nvars, svars, mvars, bvars, hvars, tvars, avars, uvars, pvars, kvars>>

GNext == AgentChatCall

SpecChat == GInit /\ [][GNext]_vars

\* the ConversationId of the rows the last request inserted
WrittenIds == { gMsgs[i].ConversationId : i \in (Len(gMsgs) - gOut.written + 1)..Len(gMsgs) }

C29_RejectionChangesNothing ==
    [][gOut'.status = 400 => UNCHANGED <<gSessions, gConvs, gMsgs>>]_vars

\* the two rejections that come before any write
C29_EarlyRejectionChangesNothing ==
    [][gOut'.status = 400 /\ gOut'.detail /= "empty text message"
          => UNCHANGED <<gSessions, gConvs, gMsgs>>]_vars

(***************************************************************************)
(* auth/repo.py and auth/router.py: refresh tokens (login, logout,         *)
(* refresh) and e-mail verification (send_verify, verify_email) of one     *)
(* registered user.  Time is a clock of ticks; a refresh token is the      *)
(* number of the login that issued it, 0 is a missing token.  Every        *)
(* execute and query_one is a statement committed on its own connection,   *)
(* so verify_email_code is a SELECT step followed by an UPDATE step.       *)
(***************************************************************************)
MaxClock == 2
MaxTokens == 2
MaxVerifs == 2

\* REFRESH_TOKEN_EXPIRE_DAYS and VERIFY_CODE_EXPIRE_MINUTES, in ticks
RefreshTtl == 2
VerifyTtl == 2

VerifyCodes == {"111111", "222222"}

AuthOut(op, status, token) == [op |-> op, status |-> status, token |-> token]

\* INSERT INTO dbo.user_refresh_tokens (..., expires_at, ...), revoked_at NULL
IssueRefreshToken(tokens, token, now) ==
    tokens \cup {[token |-> token, expires_at |-> now + RefreshTtl, revoked |-> FALSE]}

\* UPDATE ... SET revoked_at = now WHERE token_hash = ? AND revoked_at IS NULL
RevokedRows(tokens, token) == { row \in tokens : row.token = token /\ ~row.revoked }

RevokeRefreshToken(tokens, token) ==
    { IF row \in RevokedRows(tokens, token) THEN [row EXCEPT !.revoked = TRUE] ELSE row :
         row \in tokens }

\* the SELECT of validate_refresh_token without its revoked_at IS NULL
ValidateRefreshToken_IgnoreRevoked(tokens, token, now) ==
    \E row \in tokens : row.token = token /\ row.expires_at > now

\* SELECT TOP 1 user_id ... WHERE token_hash = ? AND revoked_at IS NULL AND expires_at > ?
ValidateRefreshToken(tokens, token, now) ==
    \E row \in tokens : row.token = token /\ ~row.revoked /\ row.expires_at > now

\* SELECT TOP 1 ... WHERE email = ? AND used_at IS NULL AND expires_at > ?
\* ORDER BY created_at DESC; the id of the row, 0 for no row
SelectVerification(verifs, now) ==
    LET open == { row \in verifs : ~row.used /\ row.expires_at > now }
    IN IF open = {} THEN 0
       ELSE (CHOOSE row \in open : \A other \in open : other.id <= row.id).id

CodeOf(verifs, id) == (CHOOSE row \in verifs : row.id = id).code

\* UPDATE ... SET used_at = now WHERE verification_id = ? AND used_at IS NULL
MarkUsed(verifs, id) ==
    { IF row.id = id THEN [row EXCEPT !.used = TRUE] ELSE row : row \in verifs }

\* a registered user before any verification mail, no refresh token issued
VerifyInit ==
    /\ kNow = 0
    /\ kUser = "pending"
    /\ kVerifs = {}
    /\ kPc = [r \in Requests |-> 0]
    /\ kTrue = [id \in 1..MaxVerifs |-> 0]
    /\ kTokens = {}
    /\ kLoggedOut = {}
    /\ kOut = AuthOut("none", 0, 0)
    /\ NIdle
    /\ SIdle
    /\ MIdle
    /\ BIdle
    /\ HIdle
    /\ TIdle
    /\ AIdle
    /\ UIdle
    /\ PIdle
    /\ GIdle

\* a registered user, verified or not, before any login
RefreshInit ==
    /\ kNow = 0
    /\ kUser \in {"pending", "active"}
    /\ kVerifs = {}
    /\ kPc = [r \in Requests |-> 0]
    /\ kTrue = [id \in 1..MaxVerifs |-> 0]
    /\ kTokens = {}
    /\ kLoggedOut = {}
    /\ kOut = AuthOut("none", 0, 0)
    /\ NIdle
    /\ SIdle
    /\ MIdle
    /\ BIdle
    /\ HIdle
    /\ TIdle
    /\ AIdle
    /\ UIdle
    /\ PIdle
    /\ GIdle

Tick ==
    /\ kNow < MaxClock
    /\ kNow' = kNow + 1
    /\ UNCHANGED <<kUser, kVerifs, kPc, kTrue, kTokens, kLoggedOut, kOut>>
    /\ UNCHANGED <<nvars, svars, mvars, bvars, hvars, tvars, avars, uvars, pvars, gvars>>

\* create_email_verification: a new row with a random code
SendVerify ==
    /\ Cardinality(kVerifs) < MaxVerifs
    /\ \E code \in VerifyCodes :
          kVerifs' = kVerifs \cup {[id |-> Cardinality(kVerifs) + 1, code |-> code,
                                    expires_at |-> kNow + VerifyTtl, used |-> FALSE]}
    /\ kOut' = AuthOut("send_verify", 200, 0)
    /\ UNCHANGED <<kNow, kUser, kPc, kTrue, kTokens, kLoggedOut>>
    /\ UNCHANGED <<nvars, svars, mvars, bvars, hvars, tvars, avars, uvars, pvars, gvars>>

\* verify_email_code up to the comparison of the hashes
VerifySelect ==
    /\ \E r \in Requests, code \in VerifyCodes :
          LET id == SelectVerification(kVerifs, kNow)
          IN /\ kPc[r] = 0
             /\ IF id = 0 \/ CodeOf(kVerifs, id) /= code
                   THEN /\ kOut' = AuthOut("verify", 400, 0)
                        /\ kPc' = kPc
                   ELSE /\ kOut' = kOut
                        /\ kPc' = [kPc EXCEPT ![r] = id]
    /\ UNCHANGED <<kNow, kUser, kVerifs, kTrue, kTokens, kLoggedOut>>
    /\ UNCHANGED <<nvars, svars, mvars, bvars, hvars, tvars, avars, uvars, pvars, gvars>>

\* the two UPDATEs of verify_email_code and return True
VerifyUpdate ==
    /\ \E r \in Requests :
          /\ kPc[r] /= 0
          /\ kVerifs' = MarkUsed(kVerifs, kPc[r])
          /\ kUser' = "active"
          /\ kTrue' = [kTrue EXCEPT ![kPc[r]] = @ + 1]
          /\ kPc' = [kPc EXCEPT ![r] = 0]
          /\ kOut' = AuthOut("verify", 200, 0)
    /\ UNCHANGED <<kNow, kTokens, kLoggedOut>>
    /\ UNCHANGED <<nvars, svars, mvars, bvars, hvars, tvars, avars, uvars, pvars, gvars>>

Login ==
    /\ Cardinality(kTokens) < MaxTokens
    /\ \E password_ok \in BOOLEAN :
          IF kUser /= "active"
          THEN /\ kOut' = AuthOut("login", 403, 0)
               /\ kTokens' = kTokens
          ELSE IF ~password_ok
          THEN /\ kOut' = AuthOut("login", 401, 0)
               /\ kTokens' = kTokens
          ELSE /\ kOut' = AuthOut("login", 200, Cardinality(kTokens) + 1)
               /\ kTokens' = IssueRefreshToken(kTokens, Cardinality(kTokens) + 1, kNow)
    /\ UNCHANGED <<kNow, kUser, kVerifs, kPc, kTrue, kLoggedOut>>
    /\ UNCHANGED <<nvars, svars, mvars, bvars, hvars, tvars, avars, uvars, pvars, gvars>>

Logout ==
    /\ \E token \in 0..MaxTokens :
          IF token = 0
          THEN /\ kOut' = AuthOut("logout", 400, token)
               /\ UNCHANGED <<kTokens, kLoggedOut>>
          ELSE /\ kTokens' = RevokeRefreshToken(kTokens, token)
               /\ IF RevokedRows(kTokens, token) /= {}
                     THEN /\ kOut' = AuthOut("logout", 200, token)
                          /\ kLoggedOut' = kLoggedOut \cup {token}
                     ELSE /\ kOut' = AuthOut("logout", 400, token)
                          /\ kLoggedOut' = kLoggedOut
    /\ UNCHANGED <<kNow, kUser, kVerifs, kPc, kTrue>>
    /\ UNCHANGED <<nvars, svars, mvars, bvars, hvars, tvars, avars, uvars, pvars, gvars>>

Refresh ==
    /\ \E token \in 0..MaxTokens :
          kOut' = IF token = 0 THEN AuthOut("refresh", 400, token)
                  ELSE IF ValidateRefreshToken(kTokens, token, kNow)
                  THEN AuthOut("refresh", 200, token)
                  ELSE AuthOut("refresh", 401, token)
    /\ UNCHANGED <<kNow, kUser, kVerifs, kPc, kTrue, kTokens, kLoggedOut>>
    /\ UNCHANGED <<nvars, svars, mvars, bvars, hvars, tvars, avars, uvars, pvars, gvars>>

VerifyNext == Tick \/ SendVerify \/ VerifySelect \/ VerifyUpdate

SpecVerify == VerifyInit /\ [][VerifyNext]_vars

RefreshNext == Tick \/ Login \/ Logout \/ Refresh

SpecRefresh == RefreshInit /\ [][RefreshNext]_vars

\* C27: a refresh is answered 200 only for a token that a login issued, that
\* has not expired and that no logout has revoked; a token revoked by logout
\* is never accepted again.
C27_RevokedTokenNeverAccepted ==
    [][(kOut' /= kOut /\ kOut'.op = "refresh" /\ kOut'.status = 200) =>
          /\ kOut'.token \in 1..Cardinality(kTokens)
          /\ kOut'.token \notin kLoggedOut
          /\ \E row \in kTokens : row.token = kOut'.token /\ kNow < row.expires_at]_vars

\* a token that a logout revoked is presented again and refused, while the
\* other token is still valid
C27_Witness ==
    /\ kOut = AuthOut("refresh", 401, 1)
    /\ 1 \in kLoggedOut
    /\ ValidateRefreshToken(kTokens, 2, kNow)

\* C28: an issued verification code makes verify_email_code return True at
\* most once, and the user is active only after a verify_email_code that
\* returned True.
C28_CodeIsSingleUse ==
    /\ \A id \in 1..MaxVerifs : kTrue[id] <= 1
    /\ kUser = "active" => \E id \in 1..MaxVerifs : kTrue[id] >= 1

\* the activation half alone
C28_ActiveOnlyByVerify ==
    kUser = "active" => \E id \in 1..MaxVerifs : kTrue[id] >= 1

====
